---- MODULE Spec2Model ----
(***************************************************************************)
(* The epoch protection framework of tinykv (package faster): the epoch    *)
(* table, the global epoch counter, the safe-to-reclaim scan and the       *)
(* drain list of deferred actions, as a state machine in which every       *)
(* thread runs the library's operations one memory access at a time.       *)
(***************************************************************************)
EXTENDS Integers, FiniteSets, Sequences, TLC

\* ------------------------------------------------------------------ bounds
\* Number of worker threads; thread t works on the slot it reserved, slot t
\* (a thread beyond entryNum finds no free slot and works without one).
NumThreads == 2
\* The size argument of NewLightEpoch: usable slots are 1..entryNum.
entryNum == 2
\* Length of the drain list (256 in the source, scaled down).
drainListSize == 2
\* BumpCurrentEpoch is not started once currentEpoch has reached MaxEpoch.
MaxEpoch == 3
\* Width of the epoch words (64 in the source, scaled down).
EpochBits == 3
\* Width of the 32-bit counters drainCount and reentrant (scaled down).
CountBits == 2
\* A thread nests at most MaxDepth ReentrantProtect calls.
MaxDepth == 2
\* The tables whose reservation is examined have sizes 0..MaxSize.
MaxSize == 7
\* Width of the Go int (64 in the source, scaled down; the exponent of the
\* largest int stays odd, as 63 is).
IntBits == 4
\* The size argument of NewLightEpoch in the phase-barrier scenario: three
\* slots, each with a thread of its own.
barrierSize == 3
\* currentEpoch after drainListSize + 1 registrations, one more than the drain
\* list holds: the bound of the bumps where the drain list is saturated.
SatEpoch == drainListSize + 2

\* ------------------------------------------------------- program constants
EpochMod == 2 ^ EpochBits
CountMod == 2 ^ CountBits
epochFree == EpochMod - 1
epochLocked == EpochMod - 2
Unprotected == 0
InvalidIndex == 0
PreparePhase == 2
InProgressPhase == 3
RestPhase == 6
NilCallback == 0

Threads == 1 .. NumThreads
Slots == 1 .. entryNum
Cells == 0 .. entryNum + 1
DrainIdx == 0 .. drainListSize - 1
Callbacks == 1 .. EpochMod - 1
\* The phases the workers report in this model.
Phases == {PreparePhase, InProgressPhase}

VARIABLES
    currentEpoch,        \* LightEpoch.atomicCurrentEpoch
    safeToReclaimEpoch,  \* LightEpoch.atomicSafeToReclaimEpoch
    drainCount,          \* LightEpoch.atomicDrainCount
    entries,             \* the epochEntry cells of the aligned buffer
    tableUsed,           \* LightEpoch.tableUsed
    drainList,           \* LightEpoch.drainList
    th,                  \* per thread: position in its call and its locals
    fired,               \* per callback: how many times it has been invoked
    registered,          \* the callbacks stored into the drain list so far
    returned,            \* per epoch: how many bump calls have returned it
    crashed,             \* a nil callback was invoked (the process panics)
    prot,                \* per callback: the slots that have kept one non-zero
                         \* localCurrentEpoch since its registration began
    bucketEntry,         \* a HashBucketEntry word and the calls made on it
    hashTable,           \* the outcome of NewHashTable and of GetBucket calls
    alloc,               \* the arguments and the results of an alignedAlloc call
    db                   \* a kvDB and the error its last call returned

vars == <<currentEpoch, safeToReclaimEpoch, drainCount, entries, tableUsed,
          drainList, th, fired, registered, returned, crashed, prot,
          bucketEntry, hashTable, alloc, db>>
\* The variables of the light epoch, and those of the other objects.
epochVars == <<currentEpoch, safeToReclaimEpoch, drainCount, entries,
               tableUsed, drainList, th, fired, registered, returned, crashed,
               prot>>
Nil == "nil"
\* No hash bucket entry, hash table, aligned buffer or database exists.
NoObjects ==
    /\ bucketEntry = Nil
    /\ hashTable = Nil
    /\ alloc = Nil
    /\ db = Nil

\* ------------------------------------------------------------ construction
\* epochEntry.initialize
InitEntry == [localCurrentEpoch |-> 0, reentrant |-> 0,
              atomicPhaseFinished |-> RestPhase]

\* epochAction.initialize
InitAction == [atomicEpoch |-> epochFree, callback |-> NilCallback,
               ctx |-> NilCallback]

\* NewLightEpoch stores in table[i], for every i, the address
\* start + CacheLineSize: the cell of index 1 of the buffer.
table(i) == 1

\* The locals of a thread that is in no call.
Blank == [pc |-> "idle", op |-> "none", slot |-> 0, next |-> 0, i |-> 0,
          trig |-> 0, oldest |-> 0, cb |-> 0, tmp |-> 0, ret |-> 0,
          depth |-> 0, first |-> 0, ok |-> FALSE,
          startIdx |-> 0, iteration |-> 0, arg |-> 0]

\* The light epoch as NewLightEpoch leaves it, each thread on the slot it
\* reserved.
NewLightEpoch ==
    /\ currentEpoch = 1
    /\ safeToReclaimEpoch = 0
    /\ drainCount = 0
    /\ entries = [c \in Cells |-> InitEntry]
    /\ drainList = [k \in DrainIdx |-> InitAction]
    /\ tableUsed = [c \in Cells |-> IF c \in Threads \cap Slots THEN 1 ELSE 0]
    /\ th = [t \in Threads |->
               [Blank EXCEPT !.slot = IF t \in Slots THEN t ELSE InvalidIndex]]
    /\ fired = [c \in Callbacks |-> 0]
    /\ registered = {}
    /\ returned = [e \in 1 .. SatEpoch |-> 0]
    /\ crashed = FALSE
    /\ prot = [c \in Callbacks |-> {}]
Init ==
    /\ NewLightEpoch
    /\ NoObjects

\* ----------------------------------------------------------------- helpers
LocalOf(i) == entries[table(i)].localCurrentEpoch
At(t, label) == th[t].pc = label /\ ~crashed
Idle(t) == At(t, "idle")
\* The thread is in no call and holds a reserved slot.
IdleOnSlot(t) == Idle(t) /\ th[t].slot # InvalidIndex
\* What a call keeps of the thread's locals: its slot and its nesting record.
Keep(r) == [Blank EXCEPT !.slot = r.slot, !.depth = r.depth,
                         !.first = r.first, !.ok = r.ok]
Call(r, op, label) == [Keep(r) EXCEPT !.op = op, !.pc = label]
Go(t, r) ==
    /\ th' = [th EXCEPT ![t] = r]
    /\ UNCHANGED <<bucketEntry, hashTable, alloc, db>>
Return(r, op, v) == [Keep(r) EXCEPT !.op = op, !.ret = v]
\* A plain store to the localCurrentEpoch of slot i; the slots whose epoch it
\* changes leave the record of the slots protected since a registration.
SetLocal(i, v) ==
    /\ entries' = [entries EXCEPT ![table(i)].localCurrentEpoch = v]
    /\ prot' = [c \in Callbacks |->
                 {j \in prot[c] : table(j) # table(i) \/ LocalOf(j) = v}]
\* A plain read of the entry's localCurrentEpoch right after the thread's own
\* plain store of th[t].next to it, with no synchronisation in between: the
\* build may reuse the stored value or load the cell again.
ReadBack(t) == {th[t].next, LocalOf(th[t].slot)}
\* BumpCurrentEpochWithCallback: priorEpoch := epoch.BumpCurrentEpoch() - 1
priorEpoch(r) == (r.next - 1) % EpochMod
\* A BumpCurrentEpochWithCallback that returned priorEpoch itself.
bwcResultPrior(r) == priorEpoch(r)
\* BumpCurrentEpochWithCallback: return priorEpoch + 1
bwcResult(r) == (priorEpoch(r) + 1) % EpochMod
\* A load that ran ahead of the counter.
LoadAhead == currentEpoch + 1
\* atomic.LoadUint64(&epoch.atomicCurrentEpoch)
LoadCurrentEpoch == currentEpoch
Fire(c) ==
    IF c = NilCallback
    THEN crashed' = TRUE /\ UNCHANGED <<fired, prot>>
    ELSE /\ fired' = [fired EXCEPT ![c] = IF @ < 2 THEN @ + 1 ELSE @]
         /\ prot' = [prot EXCEPT ![c] = {}]
         /\ UNCHANGED crashed

\* Drain(nextEpoch) starts with ComputeNewSafeToReclaimEpoch(nextEpoch).
StartDrain(r, nextEpoch) ==
    [r EXCEPT !.pc = "scan", !.oldest = nextEpoch, !.i = 1,
              !.arg = nextEpoch]

\* Where a call goes on once its Drain (or the test that skips it) is over.
DrainDone(r) ==
    CASE r.op = "Drain" -> Return(r, "Drain", 0)
      [] r.op = "ProtectAndDrain" ->
            [Call(r, r.op, "pad_ret") EXCEPT !.next = r.next]
      [] r.op = "BumpCurrentEpoch" ->
            [Call(r, r.op, "bump_ret") EXCEPT !.next = r.next]
      [] r.op = "BumpCurrentEpochWithCallback" ->
            [Call(r, r.op, "bwc_load") EXCEPT !.next = r.next]

\* A Drain that stopped after the first slot it looked at.
AdvanceBreak(r) == DrainDone(r)
\* The loop step of Drain: i++ and the loop test.
Advance(r) ==
    IF r.i + 1 = drainListSize
    THEN DrainDone(r)
    ELSE [r EXCEPT !.pc = "dl_load", !.i = r.i + 1, !.trig = 0, !.cb = 0]

\* A BumpCurrentEpochWithCallback that gave up after one pass over the drain
\* list.
BwcAdvanceOnce(r) ==
    IF r.i + 1 = drainListSize
    THEN [r EXCEPT !.pc = "bwc_ret"]
    ELSE [r EXCEPT !.pc = "bwc_load", !.i = r.i + 1, !.trig = 0, !.cb = 0]
\* The loop step of BumpCurrentEpochWithCallback: i++, wrapping to 0.
BwcAdvance(r) ==
    [r EXCEPT !.pc = "bwc_load", !.i = (r.i + 1) % drainListSize,
              !.trig = 0, !.cb = 0]

\* ------------------------------------------------------ Protect, Unprotect
ProtectLoad(t) ==
    /\ IdleOnSlot(t)
    /\ th[t].depth = 0
    /\ Go(t, [Call(th[t], "Protect", "p_store") EXCEPT
                 !.next = LoadCurrentEpoch])
    /\ UNCHANGED <<currentEpoch, safeToReclaimEpoch, drainCount, entries,
                   tableUsed, drainList, fired, registered, returned,
                   crashed, prot>>

ProtectStore(t) ==
    /\ At(t, "p_store")
    /\ SetLocal(th[t].slot, th[t].next)
    /\ Go(t, [th[t] EXCEPT !.pc = "p_ret"])
    /\ UNCHANGED <<currentEpoch, safeToReclaimEpoch, drainCount, tableUsed,
                   drainList, fired, registered, returned, crashed>>

ProtectReturn(t) ==
    /\ At(t, "p_ret")
    /\ \E v \in ReadBack(t) : Go(t, Return(th[t], "Protect", v))
    /\ UNCHANGED <<currentEpoch, safeToReclaimEpoch, drainCount, entries,
                   tableUsed, drainList, fired, registered, returned,
                   crashed, prot>>

Unprotect(t) ==
    /\ IdleOnSlot(t)
    /\ th[t].depth = 0
    /\ SetLocal(th[t].slot, Unprotected)
    /\ Go(t, Return(th[t], "Unprotect", 0))
    /\ UNCHANGED <<currentEpoch, safeToReclaimEpoch, drainCount, tableUsed,
                   drainList, fired, registered, returned, crashed>>

\* --------------------------------------------------------- ProtectAndDrain
PadLoad(t) ==
    /\ IdleOnSlot(t)
    /\ th[t].depth = 0
    /\ Go(t, [Call(th[t], "ProtectAndDrain", "pad_store") EXCEPT
                 !.next = LoadCurrentEpoch])
    /\ UNCHANGED <<currentEpoch, safeToReclaimEpoch, drainCount, entries,
                   tableUsed, drainList, fired, registered, returned,
                   crashed, prot>>

PadStore(t) ==
    /\ At(t, "pad_store")
    /\ SetLocal(th[t].slot, th[t].next)
    /\ Go(t, [th[t] EXCEPT !.pc = "pad_chk"])
    /\ UNCHANGED <<currentEpoch, safeToReclaimEpoch, drainCount, tableUsed,
                   drainList, fired, registered, returned, crashed>>

PadCheck(t) ==
    /\ At(t, "pad_chk")
    /\ Go(t, IF drainCount > 0 THEN [th[t] EXCEPT !.pc = "pad_arg"]
                               ELSE DrainDone(th[t]))
    /\ UNCHANGED <<currentEpoch, safeToReclaimEpoch, drainCount, entries,
                   tableUsed, drainList, fired, registered, returned,
                   crashed, prot>>

\* The argument of Drain is read back from the entry.
PadArg(t) ==
    /\ At(t, "pad_arg")
    /\ \E v \in ReadBack(t) : Go(t, StartDrain(th[t], v))
    /\ UNCHANGED <<currentEpoch, safeToReclaimEpoch, drainCount, entries,
                   tableUsed, drainList, fired, registered, returned,
                   crashed, prot>>

PadReturn(t) ==
    /\ At(t, "pad_ret")
    /\ \E v \in ReadBack(t) : Go(t, Return(th[t], "ProtectAndDrain", v))
    /\ UNCHANGED <<currentEpoch, safeToReclaimEpoch, drainCount, entries,
                   tableUsed, drainList, fired, registered, returned,
                   crashed, prot>>

\* ------------------------------------------- ComputeNewSafeToReclaimEpoch
\* A scan that took the epoch of every entry, unprotected ones too.
olderOfAny(entryEpoch, oldestOngoingCall) ==
    IF entryEpoch < oldestOngoingCall THEN entryEpoch ELSE oldestOngoingCall
\* if entryEpoch != Unprotected && entryEpoch < oldestOngoingCall
olderOf(entryEpoch, oldestOngoingCall) ==
    IF entryEpoch # Unprotected /\ entryEpoch < oldestOngoingCall
    THEN entryEpoch ELSE oldestOngoingCall

ScanEntry(t) ==
    /\ At(t, "scan")
    /\ th[t].i <= entryNum
    /\ Go(t, [th[t] EXCEPT !.i = @ + 1,
                           !.oldest = olderOf(LocalOf(th[t].i), @)])
    /\ UNCHANGED <<currentEpoch, safeToReclaimEpoch, drainCount, entries,
                   tableUsed, drainList, fired, registered, returned,
                   crashed, prot>>

\* SpinWaitForSafeToReclaim of src/unnamed/part_000 and the older one of
\* src/faster/epoch.go.
SpinOps == {"SpinWaitForSafeToReclaim", "faster.SpinWaitForSafeToReclaim"}
\* Where a call goes on after the store of ComputeNewSafeToReclaimEpoch:
\* SpinWaitForSafeToReclaim takes its result, Drain goes through the list.
AfterScan(r) ==
    IF r.op \in SpinOps
    THEN [r EXCEPT !.pc = "spin_load", !.i = 0, !.arg = 0]
    ELSE [r EXCEPT !.pc = "dl_load", !.i = 0, !.oldest = 0, !.arg = 0]

ScanStore(t) ==
    /\ At(t, "scan")
    /\ th[t].i > entryNum
    /\ safeToReclaimEpoch' = (th[t].oldest - 1) % EpochMod
    /\ Go(t, AfterScan(th[t]))
    /\ UNCHANGED <<currentEpoch, drainCount, entries, tableUsed, drainList,
                   fired, registered, returned, crashed, prot>>

\* ------------------------------------------------------------------- Drain
\* Drain(currentEpoch), called on its own.
DrainCall(t) ==
    /\ Idle(t)
    /\ th[t].depth = 0
    /\ Go(t, StartDrain(Call(th[t], "Drain", "scan"), LoadCurrentEpoch))
    /\ UNCHANGED <<currentEpoch, safeToReclaimEpoch, drainCount, entries,
                   tableUsed, drainList, fired, registered, returned,
                   crashed, prot>>

DlLoad(t) ==
    /\ At(t, "dl_load")
    /\ Go(t, [th[t] EXCEPT !.pc = "dl_cmp",
                           !.trig = drainList[th[t].i].atomicEpoch])
    /\ UNCHANGED <<currentEpoch, safeToReclaimEpoch, drainCount, entries,
                   tableUsed, drainList, fired, registered, returned,
                   crashed, prot>>

DlCmp(t) ==
    /\ At(t, "dl_cmp")
    /\ Go(t, IF th[t].trig <= safeToReclaimEpoch
             THEN [th[t] EXCEPT !.pc = "pop_cas"]
             ELSE Advance(th[t]))
    /\ UNCHANGED <<currentEpoch, safeToReclaimEpoch, drainCount, entries,
                   tableUsed, drainList, fired, registered, returned,
                   crashed, prot>>

\* epochAction.tryPop: the compare-and-swap.
PopCas(t) ==
    /\ At(t, "pop_cas")
    /\ IF drainList[th[t].i].atomicEpoch = th[t].trig
       THEN /\ drainList' = [drainList EXCEPT
                               ![th[t].i].atomicEpoch = epochLocked]
            /\ Go(t, [th[t] EXCEPT !.pc = "pop_read"])
       ELSE /\ Go(t, Advance(th[t]))
            /\ UNCHANGED drainList
    /\ UNCHANGED <<currentEpoch, safeToReclaimEpoch, drainCount, entries,
                   tableUsed, fired, registered, returned, crashed, prot>>

\* tryPop: read ctx and callback from the slot.
PopRead(t) ==
    /\ At(t, "pop_read")
    /\ Go(t, [th[t] EXCEPT !.pc = "pop_clear",
                           !.cb = drainList[th[t].i].callback])
    /\ UNCHANGED <<currentEpoch, safeToReclaimEpoch, drainCount, entries,
                   tableUsed, drainList, fired, registered, returned,
                   crashed, prot>>

\* tryPop: set the slot's callback and ctx to nil.
PopClear(t) ==
    /\ At(t, "pop_clear")
    /\ drainList' = [drainList EXCEPT ![th[t].i].callback = NilCallback,
                                      ![th[t].i].ctx = NilCallback]
    /\ Go(t, [th[t] EXCEPT !.pc = "pop_release"])
    /\ UNCHANGED <<currentEpoch, safeToReclaimEpoch, drainCount, entries,
                   tableUsed, fired, registered, returned, crashed, prot>>

\* tryPop: release the lock.
PopRelease(t) ==
    /\ At(t, "pop_release")
    /\ drainList' = [drainList EXCEPT ![th[t].i].atomicEpoch = epochFree]
    /\ Go(t, [th[t] EXCEPT !.pc = "pop_call"])
    /\ UNCHANGED <<currentEpoch, safeToReclaimEpoch, drainCount, entries,
                   tableUsed, fired, registered, returned, crashed, prot>>

\* tryPop: perform the action.
PopCall(t) ==
    /\ At(t, "pop_call")
    /\ Fire(th[t].cb)
    /\ Go(t, [th[t] EXCEPT !.pc = "pop_dec"])
    /\ UNCHANGED <<currentEpoch, safeToReclaimEpoch, drainCount, entries,
                   tableUsed, drainList, registered, returned>>

\* Drain: the atomic decrement of the drain count and the early break.
PopDec(t) ==
    /\ At(t, "pop_dec")
    /\ drainCount' = (drainCount - 1) % CountMod
    /\ Go(t, IF drainCount' = 0 THEN DrainDone(th[t]) ELSE Advance(th[t]))
    /\ UNCHANGED <<currentEpoch, safeToReclaimEpoch, entries, tableUsed,
                   drainList, fired, registered, returned, crashed, prot>>

\* -------------------------------------------------------- BumpCurrentEpoch
\* atomic.AddUint64(&epoch.atomicCurrentEpoch, 1), while the counter is
\* below cap.
BumpAddBelow(t, op, cap) ==
    /\ Idle(t)
    /\ currentEpoch < cap
    /\ currentEpoch' = currentEpoch + 1
    /\ Go(t, [Call(th[t], op, "bump_chk") EXCEPT !.next = currentEpoch + 1])
    /\ UNCHANGED <<safeToReclaimEpoch, drainCount, entries, tableUsed,
                   drainList, fired, registered, returned, crashed>>
    /\ prot' = IF op = "BumpCurrentEpochWithCallback"
               THEN [prot EXCEPT ![currentEpoch] =
                                   {j \in Slots : LocalOf(j) # Unprotected}]
               ELSE prot

BumpAdd(t, op) == BumpAddBelow(t, op, MaxEpoch)

BumpCurrentEpoch(t) == BumpAdd(t, "BumpCurrentEpoch")

\* A BumpCurrentEpoch that drains whatever drainCount is.
BumpCheckAlways(t) ==
    /\ At(t, "bump_chk")
    /\ Go(t, StartDrain(th[t], th[t].next))
    /\ UNCHANGED <<currentEpoch, safeToReclaimEpoch, drainCount, entries,
                   tableUsed, drainList, fired, registered, returned,
                   crashed, prot>>

BumpCheck(t) ==
    /\ At(t, "bump_chk")
    /\ Go(t, IF drainCount > 0 THEN StartDrain(th[t], th[t].next)
                               ELSE DrainDone(th[t]))
    /\ UNCHANGED <<currentEpoch, safeToReclaimEpoch, drainCount, entries,
                   tableUsed, drainList, fired, registered, returned,
                   crashed, prot>>

BumpReturn(t) ==
    /\ At(t, "bump_ret")
    /\ Go(t, Return(th[t], "BumpCurrentEpoch", th[t].next))
    /\ returned' = [returned EXCEPT ![th[t].next] = @ + 1]
    /\ UNCHANGED <<currentEpoch, safeToReclaimEpoch, drainCount, entries,
                   tableUsed, drainList, fired, registered, crashed, prot>>

\* -------------------------------------------- BumpCurrentEpochWithCallback
BumpCurrentEpochWithCallback(t) ==
    /\ th[t].depth = 0
    /\ BumpAdd(t, "BumpCurrentEpochWithCallback")

BwcLoad(t) ==
    /\ At(t, "bwc_load")
    /\ LET triggerEpoch == drainList[th[t].i].atomicEpoch
       IN Go(t, [th[t] EXCEPT
                   !.trig = triggerEpoch,
                   !.pc = IF triggerEpoch = epochFree THEN "push_cas"
                                                      ELSE "bwc_cmp"])
    /\ UNCHANGED <<currentEpoch, safeToReclaimEpoch, drainCount, entries,
                   tableUsed, drainList, fired, registered, returned,
                   crashed, prot>>

BwcCmp(t) ==
    /\ At(t, "bwc_cmp")
    /\ Go(t, IF th[t].trig <= safeToReclaimEpoch
             THEN [th[t] EXCEPT !.pc = "swap_cas"]
             ELSE BwcAdvance(th[t]))
    /\ UNCHANGED <<currentEpoch, safeToReclaimEpoch, drainCount, entries,
                   tableUsed, drainList, fired, registered, returned,
                   crashed, prot>>

\* epochAction.tryPush: the compare-and-swap.
PushCas(t) ==
    /\ At(t, "push_cas")
    /\ IF drainList[th[t].i].atomicEpoch = epochFree
       THEN /\ drainList' = [drainList EXCEPT
                               ![th[t].i].atomicEpoch = epochLocked]
            /\ Go(t, [th[t] EXCEPT !.pc = "push_write"])
       ELSE /\ Go(t, BwcAdvance(th[t]))
            /\ UNCHANGED drainList
    /\ UNCHANGED <<currentEpoch, safeToReclaimEpoch, drainCount, entries,
                   tableUsed, fired, registered, returned, crashed, prot>>

\* tryPush: store callback and ctx.
PushWrite(t) ==
    /\ At(t, "push_write")
    /\ drainList' = [drainList EXCEPT
                       ![th[t].i].callback = priorEpoch(th[t]),
                       ![th[t].i].ctx = priorEpoch(th[t])]
    /\ registered' = registered \cup {priorEpoch(th[t])}
    /\ Go(t, [th[t] EXCEPT !.pc = "push_release"])
    /\ UNCHANGED <<currentEpoch, safeToReclaimEpoch, drainCount, entries,
                   tableUsed, fired, returned, crashed, prot>>

\* A tryPush that released the lock with the epoch after the bump.
PushReleaseNext(t) ==
    /\ At(t, "push_release")
    /\ drainList' = [drainList EXCEPT ![th[t].i].atomicEpoch = th[t].next]
    /\ Go(t, [th[t] EXCEPT !.pc = "push_inc"])
    /\ UNCHANGED <<currentEpoch, safeToReclaimEpoch, drainCount, entries,
                   tableUsed, fired, registered, returned, crashed, prot>>
\* tryPush: release the lock by storing the trigger epoch.
PushRelease(t) ==
    /\ At(t, "push_release")
    /\ drainList' = [drainList EXCEPT
                       ![th[t].i].atomicEpoch = priorEpoch(th[t])]
    /\ Go(t, [th[t] EXCEPT !.pc = "push_inc"])
    /\ UNCHANGED <<currentEpoch, safeToReclaimEpoch, drainCount, entries,
                   tableUsed, fired, registered, returned, crashed, prot>>

PushInc(t) ==
    /\ At(t, "push_inc")
    /\ drainCount' = (drainCount + 1) % CountMod
    /\ Go(t, [th[t] EXCEPT !.pc = "bwc_ret"])
    /\ UNCHANGED <<currentEpoch, safeToReclaimEpoch, entries, tableUsed,
                   drainList, fired, registered, returned, crashed, prot>>

\* epochAction.trySwap: the compare-and-swap.
SwapCas(t) ==
    /\ At(t, "swap_cas")
    /\ IF drainList[th[t].i].atomicEpoch = th[t].trig
       THEN /\ drainList' = [drainList EXCEPT
                               ![th[t].i].atomicEpoch = epochLocked]
            /\ Go(t, [th[t] EXCEPT !.pc = "swap_read"])
       ELSE /\ Go(t, BwcAdvance(th[t]))
            /\ UNCHANGED drainList
    /\ UNCHANGED <<currentEpoch, safeToReclaimEpoch, drainCount, entries,
                   tableUsed, fired, registered, returned, crashed, prot>>

\* trySwap: read the existing callback and ctx.
SwapRead(t) ==
    /\ At(t, "swap_read")
    /\ Go(t, [th[t] EXCEPT !.pc = "swap_write",
                           !.cb = drainList[th[t].i].callback])
    /\ UNCHANGED <<currentEpoch, safeToReclaimEpoch, drainCount, entries,
                   tableUsed, drainList, fired, registered, returned,
                   crashed, prot>>

\* trySwap: store the new callback and ctx.
SwapWrite(t) ==
    /\ At(t, "swap_write")
    /\ drainList' = [drainList EXCEPT
                       ![th[t].i].callback = priorEpoch(th[t]),
                       ![th[t].i].ctx = priorEpoch(th[t])]
    /\ registered' = registered \cup {priorEpoch(th[t])}
    /\ Go(t, [th[t] EXCEPT !.pc = "swap_release"])
    /\ UNCHANGED <<currentEpoch, safeToReclaimEpoch, drainCount, entries,
                   tableUsed, fired, returned, crashed, prot>>

\* trySwap: release the lock by storing the trigger epoch.
SwapRelease(t) ==
    /\ At(t, "swap_release")
    /\ drainList' = [drainList EXCEPT
                       ![th[t].i].atomicEpoch = priorEpoch(th[t])]
    /\ Go(t, [th[t] EXCEPT !.pc = "swap_call"])
    /\ UNCHANGED <<currentEpoch, safeToReclaimEpoch, drainCount, entries,
                   tableUsed, fired, registered, returned, crashed, prot>>

\* trySwap: perform the displaced action.
SwapCall(t) ==
    /\ At(t, "swap_call")
    /\ Fire(th[t].cb)
    /\ Go(t, [th[t] EXCEPT !.pc = "bwc_ret"])
    /\ UNCHANGED <<currentEpoch, safeToReclaimEpoch, drainCount, entries,
                   tableUsed, drainList, registered, returned>>

BwcReturn(t) ==
    /\ At(t, "bwc_ret")
    /\ LET v == bwcResult(th[t])
       IN /\ Go(t, Return(th[t], "BumpCurrentEpochWithCallback", v))
          /\ returned' = [returned EXCEPT ![v] = @ + 1]
    /\ UNCHANGED <<currentEpoch, safeToReclaimEpoch, drainCount, entries,
                   tableUsed, drainList, fired, registered, crashed, prot>>

\* ------------------------------------- ReentrantProtect, ReentrantUnprotect
\* entry.reentrant++ is a plain load and a plain store.  The call that opens
\* a nest records whether the slot was unprotected with reentrant 0.
RpRead(t) ==
    /\ IdleOnSlot(t)
    /\ th[t].depth < MaxDepth
    /\ LET cell == entries[table(th[t].slot)]
           outer == th[t].depth = 0
       IN Go(t, [Call(th[t], "ReentrantProtect", "rp_write") EXCEPT
                   !.tmp = cell.reentrant,
                   !.depth = @ + 1,
                   !.first = IF outer THEN 0 ELSE @,
                   !.ok = IF outer
                          THEN cell.localCurrentEpoch = Unprotected
                               /\ cell.reentrant = 0
                          ELSE @])
    /\ UNCHANGED <<currentEpoch, safeToReclaimEpoch, drainCount, entries,
                   tableUsed, drainList, fired, registered, returned,
                   crashed, prot>>

RpWrite(t) ==
    /\ At(t, "rp_write")
    /\ entries' = [entries EXCEPT ![table(th[t].slot)].reentrant =
                                     (th[t].tmp + 1) % CountMod]
    /\ Go(t, [th[t] EXCEPT !.pc = "rp_test", !.tmp = 0])
    /\ UNCHANGED <<currentEpoch, safeToReclaimEpoch, drainCount, tableUsed,
                   drainList, fired, registered, returned, crashed, prot>>

\* if Unprotected != entry.localCurrentEpoch
RpTest(t) ==
    /\ At(t, "rp_test")
    /\ LET entryEpoch == LocalOf(th[t].slot)
       IN Go(t, IF entryEpoch # Unprotected
                THEN [th[t] EXCEPT !.pc = "rp_ret", !.next = entryEpoch]
                ELSE [th[t] EXCEPT !.pc = "rp_load"])
    /\ UNCHANGED <<currentEpoch, safeToReclaimEpoch, drainCount, entries,
                   tableUsed, drainList, fired, registered, returned,
                   crashed, prot>>

RpLoad(t) ==
    /\ At(t, "rp_load")
    /\ Go(t, [th[t] EXCEPT !.pc = "rp_store", !.next = LoadCurrentEpoch])
    /\ UNCHANGED <<currentEpoch, safeToReclaimEpoch, drainCount, entries,
                   tableUsed, drainList, fired, registered, returned,
                   crashed, prot>>

RpStore(t) ==
    /\ At(t, "rp_store")
    /\ SetLocal(th[t].slot, th[t].next)
    /\ Go(t, [th[t] EXCEPT !.pc = "rp_ret"])
    /\ UNCHANGED <<currentEpoch, safeToReclaimEpoch, drainCount, tableUsed,
                   drainList, fired, registered, returned, crashed>>

\* return entry.localCurrentEpoch; the outermost call's result is recorded.
RpReturn(t) ==
    /\ At(t, "rp_ret")
    /\ \E v \in ReadBack(t) :
          Go(t, [Return(th[t], "ReentrantProtect", v) EXCEPT
                   !.first = IF th[t].depth = 1 THEN v ELSE @])
    /\ UNCHANGED <<currentEpoch, safeToReclaimEpoch, drainCount, entries,
                   tableUsed, drainList, fired, registered, returned,
                   crashed, prot>>

\* entry.reentrant-- is a plain load and a plain store.
RuRead(t) ==
    /\ IdleOnSlot(t)
    /\ th[t].depth > 0
    /\ Go(t, [Call(th[t], "ReentrantUnprotect", "ru_write") EXCEPT
                !.tmp = entries[table(th[t].slot)].reentrant])
    /\ UNCHANGED <<currentEpoch, safeToReclaimEpoch, drainCount, entries,
                   tableUsed, drainList, fired, registered, returned,
                   crashed, prot>>

RuWrite(t) ==
    /\ At(t, "ru_write")
    /\ LET v == (th[t].tmp - 1) % CountMod
       IN /\ entries' = [entries EXCEPT ![table(th[t].slot)].reentrant = v]
          /\ Go(t, [th[t] EXCEPT !.pc = "ru_test", !.tmp = v])
    /\ UNCHANGED <<currentEpoch, safeToReclaimEpoch, drainCount, tableUsed,
                   drainList, fired, registered, returned, crashed, prot>>

\* if entry.reentrant == 0: a plain read right after the thread's own store.
RuTest(t) ==
    /\ At(t, "ru_test")
    /\ \E v \in {th[t].tmp, entries[table(th[t].slot)].reentrant} :
          Go(t, IF v = 0
                THEN [th[t] EXCEPT !.pc = "ru_clear", !.tmp = 0]
                ELSE [Return(th[t], "ReentrantUnprotect", 0) EXCEPT
                        !.depth = @ - 1])
    /\ UNCHANGED <<currentEpoch, safeToReclaimEpoch, drainCount, entries,
                   tableUsed, drainList, fired, registered, returned,
                   crashed, prot>>

RuClear(t) ==
    /\ At(t, "ru_clear")
    /\ SetLocal(th[t].slot, Unprotected)
    /\ Go(t, [Return(th[t], "ReentrantUnprotect", 0) EXCEPT !.depth = @ - 1])
    /\ UNCHANGED <<currentEpoch, safeToReclaimEpoch, drainCount, tableUsed,
                   drainList, fired, registered, returned, crashed>>

\* --------------------------------------------------------------- IsProtected
IsProtected(i) == LocalOf(i) # Unprotected

\* -------------------------------------------------------------- ReleaseEntry
\* epoch.table[epochIdx].initialize(), called by the owner of an unprotected
\* slot.
ReleaseInit(t) ==
    /\ IdleOnSlot(t)
    /\ th[t].depth = 0
    /\ ~IsProtected(th[t].slot)
    /\ entries' = [entries EXCEPT ![table(th[t].slot)] = InitEntry]
    /\ Go(t, Call(th[t], "ReleaseEntry", "rel_store"))
    /\ UNCHANGED <<currentEpoch, safeToReclaimEpoch, drainCount, tableUsed,
                   drainList, fired, registered, returned, crashed, prot>>

\* atomic.StoreInt32(&epoch.tableUsed[epochIdx], 0)
ReleaseStore(t) ==
    /\ At(t, "rel_store")
    /\ tableUsed' = [tableUsed EXCEPT ![th[t].slot] = 0]
    /\ Go(t, [Return(th[t], "ReleaseEntry", 0) EXCEPT !.slot = InvalidIndex])
    /\ UNCHANGED <<currentEpoch, safeToReclaimEpoch, drainCount, entries,
                   drainList, fired, registered, returned, crashed, prot>>

\* ---------------------------------------------------- MarkAndCheckIfFinished
MarkStore(t, phase) ==
    /\ IdleOnSlot(t)
    /\ th[t].depth = 0
    /\ entries' = [entries EXCEPT
                     ![table(th[t].slot)].atomicPhaseFinished = phase]
    /\ Go(t, [Call(th[t], "MarkAndCheckIfFinished", "mark_scan") EXCEPT
                !.tmp = phase, !.i = 1, !.arg = phase])
    /\ UNCHANGED <<currentEpoch, safeToReclaimEpoch, drainCount, tableUsed,
                   drainList, fired, registered, returned, crashed, prot>>

\* for i := uint32(1); i < epoch.entryNum; i++: one entry of the scan, in a
\* table of n usable slots.  The caller keeps the phase it reported.
MarkScanUpTo(t, n) ==
    /\ At(t, "mark_scan")
    /\ th[t].i < n
    /\ LET cell == entries[table(th[t].i)]
       IN Go(t, IF cell.localCurrentEpoch # 0
                   /\ cell.atomicPhaseFinished # th[t].tmp
                THEN [Return(th[t], "MarkAndCheckIfFinished", 0)
                        EXCEPT !.arg = th[t].tmp]
                ELSE [th[t] EXCEPT !.i = @ + 1])
    /\ UNCHANGED <<currentEpoch, safeToReclaimEpoch, drainCount, entries,
                   tableUsed, drainList, fired, registered, returned,
                   crashed, prot>>

MarkScan(t) == MarkScanUpTo(t, entryNum)

MarkReturnUpTo(t, n) ==
    /\ At(t, "mark_scan")
    /\ th[t].i >= n
    /\ Go(t, [Return(th[t], "MarkAndCheckIfFinished", 1)
                EXCEPT !.arg = th[t].tmp])
    /\ UNCHANGED <<currentEpoch, safeToReclaimEpoch, drainCount, entries,
                   tableUsed, drainList, fired, registered, returned,
                   crashed, prot>>

MarkReturn(t) == MarkReturnUpTo(t, entryNum)

\* HasThreadFinishedPhase: one atomic load of the slot's phase marker.
HasThreadFinishedPhase(entryIdx, phase) ==
    entries[table(entryIdx)].atomicPhaseFinished = phase

\* ------------------------------------------------ SpinWaitForSafeToReclaim
\* The call SpinWaitForSafeToReclaim(currentEpoch, safeToReclaimEpoch) with an
\* epoch the caller has seen and any target: the first scan starts.
SpinStart(t) ==
    /\ Idle(t)
    /\ th[t].depth = 0
    /\ \E c \in 1 .. currentEpoch, target \in 0 .. MaxEpoch :
          Go(t, [StartDrain(Call(th[t], "SpinWaitForSafeToReclaim", "scan"),
                            c)
                   EXCEPT !.next = c, !.trig = target])
    /\ UNCHANGED <<currentEpoch, safeToReclaimEpoch, drainCount, entries,
                   tableUsed, drainList, fired, registered, returned,
                   crashed, prot>>

\* ComputeNewSafeToReclaimEpoch: return atomic.LoadUint64(&safeToReclaimEpoch)
SpinLoad(t) ==
    /\ At(t, "spin_load")
    /\ Go(t, [th[t] EXCEPT !.pc = IF th[t].op = "SpinWaitForSafeToReclaim"
                                  THEN "spin_test" ELSE "spin_test_old",
                           !.tmp = safeToReclaimEpoch])
    /\ UNCHANGED <<currentEpoch, safeToReclaimEpoch, drainCount, entries,
                   tableUsed, drainList, fired, registered, returned,
                   crashed, prot>>

\* if safeToReclaimEpoch <= result: break, else scan again.
SpinTest(t) ==
    /\ At(t, "spin_test")
    /\ Go(t, IF th[t].trig <= th[t].tmp
             THEN Return(th[t], "SpinWaitForSafeToReclaim", 0)
             ELSE [StartDrain(th[t], th[t].next) EXCEPT !.tmp = 0])
    /\ UNCHANGED <<currentEpoch, safeToReclaimEpoch, drainCount, entries,
                   tableUsed, drainList, fired, registered, returned,
                   crashed, prot>>

\* The older SpinWaitForSafeToReclaim (src/faster/epoch.go): the same scan,
\* then a load of safeToReclaimEpoch.
SpinStartFaster(t) ==
    /\ Idle(t)
    /\ th[t].depth = 0
    /\ \E c \in 1 .. currentEpoch, target \in 0 .. MaxEpoch :
          Go(t, [StartDrain(Call(th[t], "faster.SpinWaitForSafeToReclaim",
                                 "scan"), c)
                   EXCEPT !.next = c, !.trig = target])
    /\ UNCHANGED <<currentEpoch, safeToReclaimEpoch, drainCount, entries,
                   tableUsed, drainList, fired, registered, returned,
                   crashed, prot>>

\* if safeToReclaimEpoch > atomic.LoadUint64(...): break, else scan again.
SpinTestFaster(t) ==
    /\ At(t, "spin_test_old")
    /\ Go(t, IF th[t].trig > th[t].tmp
             THEN Return(th[t], "faster.SpinWaitForSafeToReclaim", 0)
             ELSE [StartDrain(th[t], th[t].next) EXCEPT !.tmp = 0])
    /\ UNCHANGED <<currentEpoch, safeToReclaimEpoch, drainCount, entries,
                   tableUsed, drainList, fired, registered, returned,
                   crashed, prot>>

\* -------------------------------------------------- FindAndReserveEmptyEntry
\* epoch.entryNum of the table at hand: tableUsed has size+2 cells.
tableSize == Cardinality(DOMAIN tableUsed) - 2
\* The values rand.Int() can return: the non-negative ints.
StartIdxs == 0 .. 2 ^ (IntBits - 1) - 1
\* Go's int addition wraps around in two's complement.
WrapInt(x) ==
    ((x + 2 ^ (IntBits - 1)) % 2 ^ IntBits) - 2 ^ (IntBits - 1)
\* Go's % truncates toward zero: the result has the sign of the dividend.
GoRem(a, b) == IF a >= 0 THEN a % b ELSE 0 - ((0 - a) % b)
\* idx := 1 + (startIdx+i)%int(epoch.entryNum)
probeIdx(startIdx, i) == 1 + GoRem(WrapInt(startIdx + i), tableSize)

\* A table of any size 0..MaxSize right after NewLightEpoch, no slot reserved.
InitReserve ==
    /\ currentEpoch = 1
    /\ safeToReclaimEpoch = 0
    /\ drainCount = 0
    /\ entries = [c \in Cells |-> InitEntry]
    /\ drainList = [k \in DrainIdx |-> InitAction]
    /\ \E size \in 0 .. MaxSize : tableUsed = [c \in 0 .. size + 1 |-> 0]
    /\ th = [t \in Threads |-> Blank]
    /\ fired = [c \in Callbacks |-> 0]
    /\ registered = {}
    /\ returned = [e \in 1 .. SatEpoch |-> 0]
    /\ crashed = FALSE
    /\ prot = [c \in Callbacks |-> {}]
    /\ NoObjects

\* startIdx := rand.Int(); iteration := 0
FindStart(t) ==
    /\ Idle(t)
    /\ th[t].slot = InvalidIndex
    /\ \E startIdx \in StartIdxs :
          Go(t, [Call(th[t], "FindAndReserveEmptyEntry", "find_probe") EXCEPT
                   !.startIdx = startIdx])
    /\ UNCHANGED <<currentEpoch, safeToReclaimEpoch, drainCount, entries,
                   tableUsed, drainList, fired, registered, returned,
                   crashed, prot>>

\* One turn of the inner loop: the compare-and-swap on tableUsed[idx].  An
\* index outside the slice is a run-time panic.
FindProbe(t) ==
    /\ At(t, "find_probe")
    /\ th[t].i < tableSize
    /\ LET idx == probeIdx(th[t].startIdx, th[t].i)
       IN IF idx \notin DOMAIN tableUsed
          THEN /\ crashed' = TRUE
               /\ Go(t, [th[t] EXCEPT !.pc = "range_panic"])
               /\ UNCHANGED tableUsed
          ELSE IF tableUsed[idx] = 0
          THEN /\ tableUsed' = [tableUsed EXCEPT ![idx] = 1]
               /\ Go(t, [Return(th[t], "FindAndReserveEmptyEntry", idx)
                           EXCEPT !.slot = idx])
               /\ UNCHANGED crashed
          ELSE /\ Go(t, [th[t] EXCEPT !.i = @ + 1, !.iteration = @ + 1])
               /\ UNCHANGED <<tableUsed, crashed>>
    /\ UNCHANGED <<currentEpoch, safeToReclaimEpoch, drainCount, entries,
                   drainList, fired, registered, returned, prot>>

\* The end of a pass: panic if iteration > 3*entryNum, else scan again.
FindPass(t) ==
    /\ At(t, "find_probe")
    /\ th[t].i >= tableSize
    /\ IF th[t].iteration > 3 * tableSize
       THEN /\ crashed' = TRUE
            /\ Go(t, [th[t] EXCEPT !.pc = "find_panic"])
       ELSE /\ Go(t, [th[t] EXCEPT !.i = 0])
            /\ UNCHANGED crashed
    /\ UNCHANGED <<currentEpoch, safeToReclaimEpoch, drainCount, entries,
                   tableUsed, drainList, fired, registered, returned, prot>>

\* ----------------------------------------------------------- specification
\* A step of thread t in any of the epoch operations.
Step(t) ==
    \/ ProtectLoad(t) \/ ProtectStore(t) \/ ProtectReturn(t)
    \/ Unprotect(t)
    \/ PadLoad(t) \/ PadStore(t) \/ PadCheck(t) \/ PadArg(t)
    \/ PadReturn(t)
    \/ ScanEntry(t) \/ ScanStore(t)
    \/ DrainCall(t) \/ DlLoad(t) \/ DlCmp(t)
    \/ PopCas(t) \/ PopRead(t) \/ PopClear(t) \/ PopRelease(t) \/ PopCall(t)
    \/ PopDec(t)
    \/ BumpCurrentEpoch(t) \/ BumpCheck(t) \/ BumpReturn(t)
    \/ BumpCurrentEpochWithCallback(t)
    \/ BwcLoad(t) \/ BwcCmp(t)
    \/ PushCas(t) \/ PushWrite(t) \/ PushRelease(t) \/ PushInc(t)
    \/ SwapCas(t) \/ SwapRead(t) \/ SwapWrite(t) \/ SwapRelease(t) \/ SwapCall(t)
    \/ BwcReturn(t)

Next == \E t \in Threads : Step(t)

Spec == Init /\ [][Next]_vars

\* The protection operations alone.  No action is registered here, so
\* drainCount stays 0 and ProtectAndDrain and BumpCurrentEpoch skip Drain.
NextSlots ==
    \E t \in Threads :
        \/ ProtectLoad(t) \/ ProtectStore(t) \/ ProtectReturn(t)
        \/ Unprotect(t)
        \/ PadLoad(t) \/ PadStore(t) \/ PadCheck(t) \/ PadReturn(t)
        \/ RpRead(t) \/ RpWrite(t) \/ RpTest(t) \/ RpLoad(t) \/ RpStore(t)
        \/ RpReturn(t)
        \/ RuRead(t) \/ RuWrite(t) \/ RuTest(t) \/ RuClear(t)
        \/ BumpCurrentEpoch(t) \/ BumpCheck(t) \/ BumpReturn(t)

SpecSlots == Init /\ [][NextSlots]_vars

\* The operations on the entries of the table: protection, the phase marker
\* and the release of a slot.
NextTable ==
    \E t \in Threads :
        \/ ProtectLoad(t) \/ ProtectStore(t) \/ ProtectReturn(t)
        \/ Unprotect(t)
        \/ ReleaseInit(t) \/ ReleaseStore(t)
        \/ (\E phase \in Phases : MarkStore(t, phase))
        \/ MarkScan(t) \/ MarkReturn(t)
        \/ BumpCurrentEpoch(t) \/ BumpCheck(t) \/ BumpReturn(t)

SpecTable == Init /\ [][NextTable]_vars

\* The same operations with no two calls overlapping: a call starts only
\* while every other thread is in no call.  trySwap is never entered then:
\* the Drain inside BumpCurrentEpoch has popped every action whose trigger
\* epoch is <= safeToReclaimEpoch before the drain list is searched.
Alone(t) == \A u \in Threads \ {t} : th[u].pc = "idle"
SeqProtect(t) == Alone(t) /\ ProtectLoad(t)
SeqUnprotect(t) == Alone(t) /\ Unprotect(t)
SeqProtectAndDrain(t) == Alone(t) /\ PadLoad(t)
SeqDrain(t) == Alone(t) /\ DrainCall(t)
SeqBump(t) == Alone(t) /\ BumpCurrentEpoch(t)
SeqBumpWithCallback(t) == Alone(t) /\ BumpCurrentEpochWithCallback(t)
SeqSpinWait(t) == Alone(t) /\ SpinStart(t)
NextSeq ==
    \E t \in Threads :
        \/ SeqProtect(t) \/ ProtectStore(t) \/ ProtectReturn(t)
        \/ SeqUnprotect(t)
        \/ SeqProtectAndDrain(t) \/ PadStore(t) \/ PadCheck(t) \/ PadArg(t)
        \/ PadReturn(t)
        \/ ScanEntry(t) \/ ScanStore(t)
        \/ SeqDrain(t) \/ DlLoad(t) \/ DlCmp(t)
        \/ PopCas(t) \/ PopRead(t) \/ PopClear(t) \/ PopRelease(t) \/ PopCall(t)
        \/ PopDec(t)
        \/ SeqBump(t) \/ BumpCheck(t) \/ BumpReturn(t)
        \/ SeqBumpWithCallback(t)
        \/ BwcLoad(t) \/ BwcCmp(t)
        \/ PushCas(t) \/ PushWrite(t) \/ PushRelease(t) \/ PushInc(t)
        \/ BwcReturn(t)
        \/ SeqSpinWait(t) \/ SpinLoad(t) \/ SpinTest(t)

SpecSeq == Init /\ [][NextSeq]_vars

\* The reservation of slots: threads reserve a slot, protect and unprotect
\* on it, and release it.
NextReserve ==
    \E t \in Threads :
        \/ FindStart(t) \/ FindProbe(t) \/ FindPass(t)
        \/ ProtectLoad(t) \/ ProtectStore(t) \/ ProtectReturn(t)
        \/ Unprotect(t)
        \/ ReleaseInit(t) \/ ReleaseStore(t)

SpecReserve == InitReserve /\ [][NextReserve]_vars

\* ================================================================ properties
\* ------------------------------------------------------------------------ C1
\* C1: in every reachable state every slot whose localCurrentEpoch is non-zero
\* satisfies safeToReclaimEpoch <= localCurrentEpoch - 1.
C1_SafeBelowProtected ==
    \A i \in Slots :
        LocalOf(i) # Unprotected => safeToReclaimEpoch <= LocalOf(i) - 1

\* ------------------------------------------------------------------------ C2
\* C2: at the step that executes the callback registered with trigger epoch c
\* (in tryPop or as the displaced action of trySwap) no slot of the table has
\* a non-zero localCurrentEpoch <= c.
C2_NoProtectedAtExecution ==
    [][\A c \in Callbacks :
          fired'[c] # fired[c] =>
             \A i \in Slots : LocalOf(i) = Unprotected \/ LocalOf(i) > c]_vars

\* ------------------------------------------------------------------------ C3
\* C3: an action registered with trigger epoch c while a slot was protected at
\* an epoch <= c is not fired by any Drain, BumpCurrentEpoch or
\* ProtectAndDrain as long as that slot has stayed protected at that epoch,
\* and it is fired once only.
C3_NotFiredWhileProtected ==
    [][\A c \in Callbacks :
          fired'[c] # fired[c] => prot[c] = {} /\ fired[c] = 0]_vars

\* ------------------------------------------------------------------------ C4
\* The drain-list slots that store callback c.
InSlots(c) == Cardinality({k \in DrainIdx : drainList[k].callback = c})
\* The threads that took callback c out of a slot they locked and have not
\* executed it yet.
Holders(c) ==
    Cardinality({t \in Threads :
                    /\ th[t].pc \in {"pop_release", "pop_call",
                                     "swap_release", "swap_call"}
                    /\ th[t].cb = c})
\* C4: every registered callback is executed at most once and is never
\* discarded: it is stored in exactly one drain-list slot, or held by one
\* thread, or has been executed.
C4_ExactlyOnePlace ==
    \A c \in registered :
        /\ fired[c] <= 1
        /\ InSlots(c) + Holders(c) + fired[c] = 1

\* ------------------------------------------------------------------------ C5
\* C5: each value stored into safeToReclaimEpoch is >= the value it replaces.
C5_SafeNeverDecreases ==
    [][safeToReclaimEpoch' >= safeToReclaimEpoch]_vars

\* ------------------------------------------------------------------------ C6
\* The bump calls (with or without a callback) that have not returned yet.
InBump ==
    {t \in Threads :
        /\ th[t].pc # "idle"
        /\ th[t].op \in {"BumpCurrentEpoch", "BumpCurrentEpochWithCallback"}}
\* How many bump calls have returned an epoch in 1..e.
RECURSIVE ReturnedUpTo(_)
ReturnedUpTo(e) == IF e = 0 THEN 0 ELSE returned[e] + ReturnedUpTo(e - 1)
\* The step is the return of a bump call of thread t.
BumpReturns(t) ==
    /\ th[t].pc \in {"bump_ret", "bwc_ret"}
    /\ th'[t].pc = "idle"
\* C6: currentEpoch starts at 1 and never decreases; each bump increases it by
\* exactly 1 and returns the post-increment value, so the values returned are
\* pairwise distinct and k bumps leave currentEpoch = 1 + k; no other
\* operation changes currentEpoch.
C6_CurrentEpoch ==
    /\ currentEpoch = 1
    /\ [](/\ currentEpoch = 1 + ReturnedUpTo(MaxEpoch) + Cardinality(InBump)
          /\ \A e \in 1 .. MaxEpoch : returned[e] <= 1)
    /\ [][/\ currentEpoch' >= currentEpoch
          /\ currentEpoch' # currentEpoch =>
                /\ currentEpoch' = currentEpoch + 1
                /\ \E t \in Threads :
                      /\ th[t].pc = "idle"
                      /\ th'[t].pc = "bump_chk"
                      /\ th'[t].next = currentEpoch'
          /\ \A t \in Threads :
                BumpReturns(t) =>
                   /\ th'[t].ret = th[t].next
                   /\ returned[th'[t].ret] = 0
                   /\ returned'[th'[t].ret] = 1]_vars

\* Both kinds of bump have returned, with the distinct values 2 and 3.
C6_Witness ==
    /\ currentEpoch = 3
    /\ returned[2] = 1 /\ returned[3] = 1
    /\ \E t, u \in Threads :
          /\ Idle(t) /\ th[t].op = "BumpCurrentEpochWithCallback"
          /\ Idle(u) /\ th[u].op = "BumpCurrentEpoch"
          /\ th[t].ret # th[u].ret

\* ------------------------------------------------------------------------ C7
\* C7: in every reachable state every slot's localCurrentEpoch is <= the
\* global currentEpoch.
C7_LocalNotAhead == \A i \in Slots : LocalOf(i) <= currentEpoch

\* A ReentrantProtect has returned and its slot records the bumped epoch.
C7_Witness ==
    /\ currentEpoch > 1
    /\ \E t \in Threads :
          /\ Idle(t)
          /\ th[t].op = "ReentrantProtect"
          /\ th[t].slot # InvalidIndex
          /\ LocalOf(th[t].slot) = currentEpoch

\* ------------------------------------------------------------------------ C8
\* The operations of one slot that C8 is about.
SlotOps == {"Protect", "Unprotect", "ReentrantProtect", "ReentrantUnprotect",
            "ReleaseEntry", "MarkAndCheckIfFinished"}
\* C8: a step of Protect, Unprotect, ReentrantProtect, ReentrantUnprotect,
\* ReleaseEntry or MarkAndCheckIfFinished on slot i leaves the
\* localCurrentEpoch, reentrant and atomicPhaseFinished of every other slot j
\* unchanged.
C8_SlotsIndependent ==
    [][\A t \in Threads, j \in Slots :
          (/\ th'[t] # th[t]
           /\ th'[t].op \in SlotOps
           /\ j # th[t].slot)
          => entries'[table(j)] = entries[table(j)]]_vars

\* ------------------------------------------------------------------------ C9
\* C9: Protect returns the value of currentEpoch it read and stored, and the
\* slot then records that value and is protected; Unprotect leaves the slot's
\* localCurrentEpoch 0 and the slot unprotected.
C9_ProtectUnprotect ==
    [][\A t \in Threads :
          /\ (th[t].pc = "p_ret" /\ th'[t].pc = "idle") =>
                /\ th'[t].ret = th[t].next
                /\ entries'[table(th[t].slot)].localCurrentEpoch = th[t].next
                /\ th[t].next # Unprotected
          /\ (th[t].pc = "idle" /\ th'[t] # th[t] /\ th'[t].pc = "idle"
              /\ th'[t].op = "Unprotect") =>
                entries'[table(th[t].slot)].localCurrentEpoch = Unprotected
      ]_vars

\* ----------------------------------------------------------------------- C10
\* C10: for a nest opened on an unprotected slot with reentrant 0, as long as
\* fewer ReentrantUnprotect than ReentrantProtect calls have been made the
\* slot is protected at the epoch the first ReentrantProtect returned, and
\* every nested ReentrantProtect returned that epoch; once the outermost
\* ReentrantUnprotect has returned the slot's localCurrentEpoch and reentrant
\* are 0.
C10_Nesting ==
    \A t \in Threads :
        (Idle(t) /\ th[t].ok /\ th[t].slot # InvalidIndex) =>
            LET cell == entries[table(th[t].slot)]
            IN /\ th[t].depth >= 1 =>
                     /\ th[t].first # Unprotected
                     /\ cell.localCurrentEpoch = th[t].first
                     /\ th[t].op = "ReentrantProtect" =>
                           th[t].ret = th[t].first
               /\ (th[t].depth = 0 /\ th[t].op = "ReentrantUnprotect") =>
                     /\ cell.localCurrentEpoch = Unprotected
                     /\ cell.reentrant = 0

\* ----------------------------------------------------------------------- C11
\* The step is the return of an index by FindAndReserveEmptyEntry in thread t.
FindReturns(t) ==
    /\ th[t].pc = "find_probe"
    /\ th'[t].pc = "idle"
\* C11: an index returned by FindAndReserveEmptyEntry is in 1..N, whatever
\* the start offset and the interleaving, and no index is held by two callers
\* at once: it is returned again only after its ReleaseEntry.
C11_ExclusiveOwnership ==
    [][\A t \in Threads :
          FindReturns(t) =>
             /\ th'[t].ret \in 1 .. tableSize
             /\ \A u \in Threads \ {t} : th[u].slot # th'[t].ret]_vars

\* ----------------------------------------------------------------------- C12
\* C12: FindAndReserveEmptyEntry gives up with its panic after at most 3*N
\* failed probes, and a call never returns an index or reserves anything
\* while all N usable slots are reserved.
C12_FailsWithin3N ==
    [][\A t \in Threads :
          /\ th'[t].pc = "find_panic" => th'[t].iteration <= 3 * tableSize
          /\ (/\ th[t].pc = "find_probe"
              /\ th'[t] # th[t]
              /\ \A c \in 1 .. tableSize : tableUsed[c] = 1) =>
                /\ ~FindReturns(t)
                /\ tableUsed' = tableUsed]_vars

\* ----------------------------------------------------------------------- C13
\* C13: when ReleaseEntry(slot) returns, the slot has localCurrentEpoch 0,
\* reentrant 0, the rest phase and a clear in-use flag, so it is unprotected
\* and free to be reserved again; these are the field values initialize()
\* gives a fresh entry.
C13_ReleaseResets ==
    [][\A t \in Threads :
          (th[t].pc = "rel_store" /\ th'[t].pc = "idle") =>
             /\ entries'[table(th[t].slot)] =
                   [localCurrentEpoch |-> Unprotected, reentrant |-> 0,
                    atomicPhaseFinished |-> RestPhase]
             /\ InitEntry = entries'[table(th[t].slot)]
             /\ tableUsed'[th[t].slot] = 0]_vars

\* ----------------------------------------------------------------------- C14
\* The least element of a non-empty set of epochs.
MinOf(S) == CHOOSE x \in S : \A y \in S : x <= y
\* The epochs recorded by the protected slots among 1..entryNum.
ProtectedEpochs == {LocalOf(i) : i \in Slots} \ {Unprotected}
\* C14: with no overlapping call, ComputeNewSafeToReclaimEpoch(c) stores into
\* safeToReclaimEpoch, and returns, min(c, the epochs of the protected slots
\* 1..entryNum) - 1.
C14_ScanResult ==
    [][\A t \in Threads :
          /\ (th[t].pc = "scan" /\ th'[t].pc # "scan") =>
                safeToReclaimEpoch' =
                   MinOf({th[t].arg} \cup ProtectedEpochs) - 1
          /\ (th[t].pc = "spin_load" /\ th'[t].pc = "spin_test") =>
                th'[t].tmp = MinOf({th[t].next} \cup ProtectedEpochs) - 1
      ]_vars

\* A scan has just stored the epoch of a protected slot, minus one, which is
\* below its argument minus one.
C14_Witness ==
    \E t \in Threads :
        /\ th[t].pc = "spin_load"
        /\ \E j \in Slots :
              /\ IsProtected(j)
              /\ LocalOf(j) < th[t].next
              /\ safeToReclaimEpoch = LocalOf(j) - 1

\* ----------------------------------------------------------------------- C15
\* The positions of a thread inside Drain.
DrainPcs == {"scan", "dl_load", "dl_cmp", "pop_cas", "pop_read", "pop_clear",
             "pop_release", "pop_call", "pop_dec"}
\* The step ends a Drain of thread t.
DrainEnds(t) ==
    /\ th[t].op \notin SpinOps
    /\ th[t].pc \in DrainPcs
    /\ th'[t].pc \notin DrainPcs
\* The step starts a Drain of thread t.
DrainStarts(t) ==
    /\ th'[t].op \notin SpinOps
    /\ th[t].pc \notin DrainPcs
    /\ th'[t].pc \in DrainPcs
\* The argument of the Drain thread t is in.
nextEpochOf(t) == IF th[t].op = "Drain" THEN currentEpoch ELSE th[t].next
\* The drain-list slots that hold a pending action.
Pending == {k \in DrainIdx :
               drainList[k].atomicEpoch \notin {epochFree, epochLocked}}
\* C15: with no overlapping call, when Drain(nextEpoch) ends safeToReclaimEpoch
\* is what ComputeNewSafeToReclaimEpoch(nextEpoch) computes, every action with
\* a trigger epoch <= it has been executed once and its slot is Free, the
\* drain count has gone down with the actions executed (it counts the pending
\* actions), and every other action is pending with its trigger epoch and
\* callback unchanged.
C15_DrainResult ==
    [][/\ \A t \in Threads :
          DrainEnds(t) =>
             /\ safeToReclaimEpoch' =
                   MinOf({nextEpochOf(t)} \cup ProtectedEpochs) - 1
             /\ \A k \in DrainIdx :
                   \/ drainList'[k] = InitAction
                   \/ /\ drainList'[k].atomicEpoch > safeToReclaimEpoch'
                      /\ drainList'[k].atomicEpoch \in registered
                      /\ drainList'[k].callback = drainList'[k].atomicEpoch
                      /\ fired'[drainList'[k].atomicEpoch] = 0
             /\ \A c \in registered :
                   /\ c <= safeToReclaimEpoch' => fired'[c] = 1
                   /\ fired'[c] = 0 =>
                         Cardinality({k \in DrainIdx :
                                        drainList'[k].atomicEpoch = c}) = 1
                   /\ fired'[c] <= 1
             /\ drainCount' =
                   Cardinality({k \in DrainIdx : drainList'[k] # InitAction})
       /\ \A t \in Threads :
             DrainStarts(t) => drainCount = Cardinality(Pending)
      ]_vars

\* A Drain called on its own has ended; one action has been executed and
\* another one, with a greater trigger epoch, is still pending.
C15_Witness ==
    /\ \E t \in Threads : Idle(t) /\ th[t].op = "Drain"
    /\ drainCount = 1
    /\ \E c, d \in registered :
          /\ fired[c] = 1 /\ fired[d] = 0
          /\ d > safeToReclaimEpoch
          /\ \E k \in Pending : drainList[k].atomicEpoch = d

\* ----------------------------------------------------------------------- C16
\* Registration and draining with overlapping calls: the bumps, Drain and the
\* plain protection calls.
NextRegister ==
    \E t \in Threads :
        \/ ProtectLoad(t) \/ ProtectStore(t) \/ ProtectReturn(t)
        \/ Unprotect(t)
        \/ ScanEntry(t) \/ ScanStore(t)
        \/ DrainCall(t) \/ DlLoad(t) \/ DlCmp(t)
        \/ PopCas(t) \/ PopRead(t) \/ PopClear(t) \/ PopRelease(t) \/ PopCall(t)
        \/ PopDec(t)
        \/ BumpCurrentEpoch(t) \/ BumpCheck(t) \/ BumpReturn(t)
        \/ BumpCurrentEpochWithCallback(t)
        \/ BwcLoad(t) \/ BwcCmp(t)
        \/ PushCas(t) \/ PushWrite(t) \/ PushRelease(t) \/ PushInc(t)
        \/ SwapCas(t) \/ SwapRead(t) \/ SwapWrite(t) \/ SwapRelease(t) \/ SwapCall(t)
        \/ BwcReturn(t)

SpecRegister == Init /\ [][NextRegister]_vars

\* The step is the return of BumpCurrentEpochWithCallback of thread t.
BwcReturns(t) == th[t].pc = "bwc_ret" /\ th'[t].pc = "idle"
\* The place of thread t in the registration loop of
\* BumpCurrentEpochWithCallback.
BwcPcs == {"bwc_load", "bwc_cmp", "push_cas", "push_write", "push_release",
           "push_inc", "swap_cas", "swap_read", "swap_write", "swap_release",
           "swap_call", "bwc_ret"}
\* The drain-list slots where callback c is pending under trigger epoch c.
PendingAt(c) ==
    {k \in DrainIdx : drainList[k].atomicEpoch = c /\ drainList[k].callback = c}
\* The threads that locked the slot of the action with trigger epoch c, by
\* tryPop or trySwap, and have not executed its callback yet.
Taking(c) ==
    {t \in Threads :
        /\ th[t].pc \in {"pop_read", "pop_clear", "pop_release", "pop_call",
                         "swap_read", "swap_write", "swap_release",
                         "swap_call"}
        /\ th[t].trig = c}
\* What the call of thread t does to drainCount and to the action it
\* displaces: one increment after a push, nothing after a swap, and the
\* displaced action, whose trigger epoch was <= safeToReclaimEpoch when it was
\* compared, is executed before the call returns.
BwcOwnEffects(t) ==
    /\ (th[t].pc = "push_inc" /\ th'[t].pc = "bwc_ret") =>
          drainCount' = (drainCount + 1) % CountMod
    /\ (th[t].pc \in BwcPcs \ {"push_inc"} /\ th'[t] # th[t]) =>
          drainCount' = drainCount
    /\ (th[t].pc = "bwc_cmp" /\ th'[t].pc = "swap_cas") =>
          th[t].trig <= safeToReclaimEpoch
    /\ (th[t].pc = "swap_call" /\ th'[t].pc = "bwc_ret") =>
          /\ th[t].cb = th[t].trig
          /\ fired'[th[t].cb] = 1
SatRegister(t) ==
    /\ t = 1
    /\ th[t].depth = 0
    /\ BumpAddBelow(t, "BumpCurrentEpochWithCallback", SatEpoch)
SatProtect(t) == t # 1 /\ ProtectLoad(t)
SatUnprotect(t) == t # 1 /\ Unprotect(t)
SatDrain(t) == t # 1 /\ DrainCall(t)
\* The steps inside a call of thread t.
SatRun(t) ==
    \/ ProtectStore(t) \/ ProtectReturn(t)
    \/ ScanEntry(t) \/ ScanStore(t)
    \/ DlLoad(t) \/ DlCmp(t)
    \/ PopCas(t) \/ PopRead(t) \/ PopClear(t) \/ PopRelease(t) \/ PopCall(t)
    \/ PopDec(t)
    \/ BumpCheck(t)
    \/ BwcLoad(t) \/ BwcCmp(t)
    \/ PushCas(t) \/ PushWrite(t) \/ PushRelease(t) \/ PushInc(t)
    \/ SwapCas(t) \/ SwapRead(t) \/ SwapWrite(t) \/ SwapRelease(t) \/ SwapCall(t)
    \/ BwcReturn(t)
NextSaturate ==
    \E t \in Threads :
        \/ SatRegister(t) \/ SatProtect(t) \/ SatUnprotect(t) \/ SatDrain(t)
        \/ SatRun(t)
\* Every thread that is inside a call keeps being scheduled.
SpecSaturate ==
    /\ Init /\ [][NextSaturate]_vars
    /\ \A t \in Threads : WF_vars(SatRun(t))

\* Every drain-list slot holds an action whose trigger epoch is above the
\* cached safeToReclaimEpoch.
Saturated ==
    \A k \in DrainIdx :
        /\ drainList[k].atomicEpoch \notin {epochFree, epochLocked}
        /\ drainList[k].atomicEpoch > safeToReclaimEpoch
\* A slot that BumpCurrentEpochWithCallback can take: Free, or holding an
\* action whose trigger epoch is <= safeToReclaimEpoch.
Available ==
    \E k \in DrainIdx :
        \/ drainList[k].atomicEpoch = epochFree
        \/ drainList[k].atomicEpoch <= safeToReclaimEpoch
\* Thread t is in BumpCurrentEpochWithCallback and has not taken a slot yet.
Searching(t) == th[t].pc \in {"bwc_load", "bwc_cmp", "push_cas", "swap_cas"}
\* Thread t is in BumpCurrentEpochWithCallback, after its bump.
Registering(t) == th[t].pc \in BwcPcs
\* Thread t is about to load the trigger epoch of a slot, or to compare the
\* trigger epoch the slot still holds with safeToReclaimEpoch.
LooksAt(t) ==
    \/ th[t].pc = "bwc_load"
    \/ /\ th[t].pc = "bwc_cmp"
       /\ th[t].trig = drainList[th[t].i].atomicEpoch
NextWait ==
    \E t \in Threads :
        \/ ProtectLoad(t) \/ ProtectStore(t) \/ ProtectReturn(t)
        \/ Unprotect(t)
        \/ BumpCurrentEpoch(t) \/ BumpCheck(t) \/ BumpReturn(t)
        \/ SpinStart(t) \/ SpinStartFaster(t)
        \/ ScanEntry(t) \/ ScanStore(t)
        \/ SpinLoad(t) \/ SpinTest(t) \/ SpinTestFaster(t)

SpecWait == Init /\ [][NextWait]_vars

\* The step is the return of SpinWaitForSafeToReclaim of thread t.
SpinReturns(t) ==
    /\ th[t].pc \in {"spin_test", "spin_test_old"}
    /\ th'[t].pc = "idle"
\* C18: SpinWaitForSafeToReclaim(currentEpoch, target) returns only after a
\* scan whose safe epoch is >= target, and not while a slot is protected at
\* an epoch <= target.
C18_NotBeforeSafe ==
    [][\A t \in Threads :
          SpinReturns(t) =>
             /\ th[t].trig <= th[t].tmp
             /\ \A i \in Slots :
                   LocalOf(i) # Unprotected => LocalOf(i) > th[t].trig
      ]_vars

\* ----------------------------------------------------------------------- C19
\* IsSafeToReclaim of src/unnamed/part_000:
\* expectedEpoch <= atomic.LoadUint64(&epoch.atomicSafeToReclaimEpoch)
IsSafeToReclaim(expectedEpoch) == expectedEpoch <= safeToReclaimEpoch
\* IsSafeToReclaim of src/faster/epoch.go:
\* expectedEpoch < atomic.LoadUint64(&epoch.atomicSafeToReclaimEpoch)
fasterIsSafeToReclaim(expectedEpoch) == expectedEpoch < safeToReclaimEpoch
\* A call of IsSafeToReclaim is one atomic load; the thread keeps the argument
\* and the result (1 for true, 0 for false).
IsSafeCall(t) ==
    /\ Idle(t)
    /\ \E E \in 0 .. MaxEpoch :
          Go(t, [Return(th[t], "IsSafeToReclaim",
                        IF IsSafeToReclaim(E) THEN 1 ELSE 0)
                   EXCEPT !.arg = E])
    /\ UNCHANGED <<currentEpoch, safeToReclaimEpoch, drainCount, entries,
                   tableUsed, drainList, fired, registered, returned,
                   crashed, prot>>
fasterIsSafeCall(t) ==
    /\ Idle(t)
    /\ \E E \in 0 .. MaxEpoch :
          Go(t, [Return(th[t], "faster.IsSafeToReclaim",
                        IF fasterIsSafeToReclaim(E) THEN 1 ELSE 0)
                   EXCEPT !.arg = E])
    /\ UNCHANGED <<currentEpoch, safeToReclaimEpoch, drainCount, entries,
                   tableUsed, drainList, fired, registered, returned,
                   crashed, prot>>
\* Asking whether an epoch is safe while others protect, unprotect, bump and
\* drain.  No action is registered, so Drain pops nothing.
NextReclaim ==
    \E t \in Threads :
        \/ ProtectLoad(t) \/ ProtectStore(t) \/ ProtectReturn(t)
        \/ Unprotect(t)
        \/ BumpCurrentEpoch(t) \/ BumpCheck(t) \/ BumpReturn(t)
        \/ DrainCall(t) \/ ScanEntry(t) \/ ScanStore(t)
        \/ DlLoad(t) \/ DlCmp(t)
        \/ IsSafeCall(t) \/ fasterIsSafeCall(t)

SpecReclaim == Init /\ [][NextReclaim]_vars

\* The step is a call of IsSafeToReclaim by thread t.
IsSafeReturns(t) ==
    /\ th[t].pc = "idle" /\ th'[t].pc = "idle"
    /\ th'[t] # th[t]
    /\ th'[t].op \in {"IsSafeToReclaim", "faster.IsSafeToReclaim"}
\* C19: IsSafeToReclaim(E) returns true exactly when E <= safeToReclaimEpoch
\* and changes nothing but the caller's own result.
C19_IsSafeIffNotAbove ==
    [][\A t \in Threads :
          IsSafeReturns(t) =>
             /\ (th'[t].ret = 1) <=> (th'[t].arg <= safeToReclaimEpoch)
             /\ UNCHANGED <<currentEpoch, safeToReclaimEpoch, drainCount,
                            entries, tableUsed, drainList, fired, registered,
                            returned, crashed, prot>>
             /\ \A u \in Threads \ {t} : th'[u] = th[u]
      ]_vars

\* ----------------------------------------------------------------------- C20
\* The older revision (src/faster/epoch.go): table is a slice of epochEntry
\* values, so slot i is the entry entries[i] of its own.
fasterProtectLoad(t) ==
    /\ Alone(t)
    /\ IdleOnSlot(t)
    /\ th[t].depth = 0
    /\ Go(t, [Call(th[t], "faster.Protect", "fp_store") EXCEPT
                 !.next = LoadCurrentEpoch])
    /\ UNCHANGED <<currentEpoch, safeToReclaimEpoch, drainCount, entries,
                   tableUsed, drainList, fired, registered, returned,
                   crashed, prot>>

fasterProtectStore(t) ==
    /\ At(t, "fp_store")
    /\ entries' = [entries EXCEPT ![th[t].slot].localCurrentEpoch = th[t].next]
    /\ Go(t, Return(th[t], "faster.Protect", th[t].next))
    /\ UNCHANGED <<currentEpoch, safeToReclaimEpoch, drainCount, tableUsed,
                   drainList, fired, registered, returned, crashed, prot>>

fasterUnprotect(t) ==
    /\ Alone(t)
    /\ IdleOnSlot(t)
    /\ th[t].depth = 0
    /\ entries' = [entries EXCEPT ![th[t].slot].localCurrentEpoch = Unprotected]
    /\ Go(t, Return(th[t], "faster.Unprotect", 0))
    /\ UNCHANGED <<currentEpoch, safeToReclaimEpoch, drainCount, tableUsed,
                   drainList, fired, registered, returned, crashed, prot>>

\* FinishThreadPhase(entryIdx, phase): the store of the phase marker.
FinishThreadPhase(t, phase) ==
    /\ Alone(t)
    /\ IdleOnSlot(t)
    /\ th[t].depth = 0
    /\ entries' = [entries EXCEPT ![th[t].slot].atomicPhaseFinished = phase]
    /\ Go(t, [Call(th[t], "faster.FinishThreadPhase", "ftp_scan") EXCEPT
                !.tmp = phase, !.i = 1])
    /\ UNCHANGED <<currentEpoch, safeToReclaimEpoch, drainCount, tableUsed,
                   drainList, fired, registered, returned, crashed, prot>>

\* for i := uint32(1); i < epoch.entryNum; i++: one entry of the scan.
FinishScan(t) ==
    /\ At(t, "ftp_scan")
    /\ th[t].i < entryNum
    /\ LET cell == entries[th[t].i]
       IN Go(t, IF cell.localCurrentEpoch # 0
                   /\ cell.atomicPhaseFinished # th[t].tmp
                THEN Return(th[t], "faster.FinishThreadPhase", 0)
                ELSE [th[t] EXCEPT !.i = @ + 1])
    /\ UNCHANGED <<currentEpoch, safeToReclaimEpoch, drainCount, entries,
                   tableUsed, drainList, fired, registered, returned,
                   crashed, prot>>

FinishReturn(t) ==
    /\ At(t, "ftp_scan")
    /\ th[t].i >= entryNum
    /\ Go(t, Return(th[t], "faster.FinishThreadPhase", 1))
    /\ UNCHANGED <<currentEpoch, safeToReclaimEpoch, drainCount, entries,
                   tableUsed, drainList, fired, registered, returned,
                   crashed, prot>>

\* ResetPhaseFinished of the older revision: the start of the call.
fasterResetPhaseFinished(t) ==
    /\ Alone(t)
    /\ Idle(t)
    /\ th[t].depth = 0
    /\ Go(t, [Call(th[t], "faster.ResetPhaseFinished", "reset") EXCEPT !.i = 1])
    /\ UNCHANGED <<currentEpoch, safeToReclaimEpoch, drainCount, entries,
                   tableUsed, drainList, fired, registered, returned,
                   crashed, prot>>

\* for i := uint32(1); i < epoch.entryNum; i++: one store of RestPhase.
ResetStore(t) ==
    /\ At(t, "reset")
    /\ th[t].i < entryNum
    /\ entries' = [entries EXCEPT ![th[t].i].atomicPhaseFinished = RestPhase]
    /\ Go(t, [th[t] EXCEPT !.i = @ + 1])
    /\ UNCHANGED <<currentEpoch, safeToReclaimEpoch, drainCount, tableUsed,
                   drainList, fired, registered, returned, crashed, prot>>

ResetReturn(t) ==
    /\ At(t, "reset")
    /\ th[t].i >= entryNum
    /\ Go(t, Return(th[t], "faster.ResetPhaseFinished", 0))
    /\ UNCHANGED <<currentEpoch, safeToReclaimEpoch, drainCount, entries,
                   tableUsed, drainList, fired, registered, returned,
                   crashed, prot>>

\* The phase calls of the older revision, no two calls overlapping: the table
\* a call scans is the table it returns in.
NextPhase ==
    \E t \in Threads :
        \/ fasterProtectLoad(t) \/ fasterProtectStore(t)
        \/ fasterUnprotect(t)
        \/ (\E phase \in Phases : FinishThreadPhase(t, phase))
        \/ FinishScan(t) \/ FinishReturn(t)
        \/ fasterResetPhaseFinished(t) \/ ResetStore(t) \/ ResetReturn(t)
        \/ SeqBump(t) \/ BumpCheck(t) \/ BumpReturn(t)

SpecPhase == Init /\ [][NextPhase]_vars

\* The step is the return of FinishThreadPhase of thread t.
FinishReturns(t) == th[t].pc = "ftp_scan" /\ th'[t].pc = "idle"
\* C20: FinishThreadPhase(slot, phase) has stored phase in the slot's marker
\* and returns true exactly when every slot of 1..entryNum with a non-zero
\* localCurrentEpoch has its marker equal to phase.
C20_AllProtectedFinished ==
    [][\A t \in Threads :
          FinishReturns(t) =>
             /\ entries[th[t].slot].atomicPhaseFinished = th[t].tmp
             /\ (th'[t].ret = 1) <=>
                   \A i \in Slots :
                      entries[i].localCurrentEpoch # 0 =>
                         entries[i].atomicPhaseFinished = th[t].tmp
      ]_vars

\* ----------------------------------------------------------------------- C21
\* The phase barrier: NewLightEpoch(barrierSize), every slot protected by
\* its thread at epoch 1 and every marker rest, as ResetPhaseFinished and
\* initialize leave it.  Calls do not overlap.
BarrierThreads == 1 .. barrierSize
InitBarrier ==
    /\ currentEpoch = 1
    /\ safeToReclaimEpoch = 0
    /\ drainCount = 0
    /\ entries = [c \in Cells |->
                    IF c \in {table(i) : i \in BarrierThreads}
                    THEN [InitEntry EXCEPT !.localCurrentEpoch = 1]
                    ELSE InitEntry]
    /\ drainList = [k \in DrainIdx |-> InitAction]
    /\ tableUsed = [c \in 0 .. barrierSize + 1 |->
                      IF c \in BarrierThreads THEN 1 ELSE 0]
    /\ th = [t \in BarrierThreads |-> [Blank EXCEPT !.slot = t]]
    /\ fired = [c \in Callbacks |-> 0]
    /\ registered = {}
    /\ returned = [e \in 1 .. SatEpoch |-> 0]
    /\ crashed = FALSE
    /\ prot = [c \in Callbacks |-> {}]
    /\ NoObjects
\* No other thread of the barrier is inside a call.
BarrierAlone(t) == \A u \in BarrierThreads \ {t} : th[u].pc = "idle"
\* A thread that has not reported leaves or enters its protected region.
BarrierUnprotect(t) ==
    /\ BarrierAlone(t)
    /\ th[t].op \in {"none", "Protect"}
    /\ Unprotect(t)
BarrierProtect(t) ==
    /\ BarrierAlone(t)
    /\ th[t].op = "Unprotect"
    /\ ProtectLoad(t)
BarrierMark(t) ==
    /\ BarrierAlone(t)
    /\ \E phase \in Phases : MarkStore(t, phase)
BarrierScan(t) == MarkScanUpTo(t, barrierSize)
BarrierReturn(t) == MarkReturnUpTo(t, barrierSize)
NextBarrier ==
    \E t \in BarrierThreads :
        \/ BarrierUnprotect(t)
        \/ BarrierProtect(t) \/ ProtectStore(t) \/ ProtectReturn(t)
        \/ BarrierMark(t) \/ BarrierScan(t) \/ BarrierReturn(t)

SpecBarrier == InitBarrier /\ [][NextBarrier]_vars

\* The thread of slot s has reported phase p, and no other phase after it.
Reported(s, p) == th[s].op = "MarkAndCheckIfFinished" /\ th[s].arg = p
\* C21: a report of phase p returns true exactly when every protected slot
\* has reported p (so three protected slots answer false, false, true, and
\* an unprotected slot that has not reported is left out), and
\* HasThreadFinishedPhase(s, p) is true exactly for the slots that have
\* reported p.
C21_PhaseBarrier ==
    /\ [](\A s \in BarrierThreads, p \in Phases :
             HasThreadFinishedPhase(s, p) <=> Reported(s, p))
    /\ [][\A t \in BarrierThreads :
             (th[t].pc = "mark_scan" /\ th'[t].pc = "idle") =>
                ((th'[t].ret = 1) <=>
                    \A s \in BarrierThreads :
                       IsProtected(s) => Reported(s, th[t].tmp))
         ]_vars

\* ----------------------------------------------------------------------- C22
\* C22: when ResetPhaseFinished returns, with no other call running, the
\* phase marker of every slot of 1..entryNum is rest, and the call has
\* changed no localCurrentEpoch and no reentrant count.
C22_ResetAll ==
    [][\A t \in Threads :
          /\ (th[t].pc = "reset" /\ th'[t].pc = "idle") =>
                \A i \in Slots : entries'[i].atomicPhaseFinished = RestPhase
          /\ th[t].pc = "reset" =>
                \A c \in Cells :
                   /\ entries'[c].localCurrentEpoch = entries[c].localCurrentEpoch
                   /\ entries'[c].reentrant = entries[c].reentrant
      ]_vars


\* ------------------------------------------------------- hash bucket entry
\* A HashBucketEntry is a 64-bit word, kept here as its four 16-bit limbs:
\* limb k holds bits 16k .. 16k+15.  Every sum in the accessors adds words
\* whose set bits are disjoint, so no carry crosses a limb.  Two layouts of
\* the word exist: "high" keeps the address in the high 48 bits
\* (| address | tag | reserved | tentative |), "low" in the low 48 bits
\* (| tentative | reserved | tag | address |).
Radix == 2 ^ 16
LimbIdx == 0 .. 3
Layouts == {"high", "low"}
\* The calls made on one entry in a run.
MaxCalls == 3
Word(l3, l2, l1, l0) ==
    [k \in LimbIdx |-> IF k = 3 THEN l3 ELSE IF k = 2 THEN l2
                       ELSE IF k = 1 THEN l1 ELSE l0]
\* x & (2^n - 1), x with its low n bits cleared, and bit n of x, for a limb x.
LowBits(x, n) == x % (2 ^ n)
ClearLow(x, n) == x - (x % (2 ^ n))
Bit(x, n) == (x \div (2 ^ n)) % 2
\* x | 2^n
SetBit(x, n) == IF Bit(x, n) = 1 THEN x ELSE x + 2 ^ n

\* high: uint64(*entry) >> 16;  low: uint64(*entry) & (1<<48 - 1)
GetAddress(layout, w) ==
    IF layout = "high"
    THEN Word(0, w[3], w[2], w[1])
    ELSE Word(0, w[2], w[1], w[0])
\* high: *ptr = (addr << 16) + (*ptr & 0xff)
\* low:  *ptr = (*ptr & (uint64(0xffff) << 48)) + (addr & (1<<48 - 1))
SetAddress(layout, w, addr) ==
    IF layout = "high"
    THEN Word(addr[2], addr[1], addr[0], LowBits(w[0], 8))
    ELSE Word(w[3], addr[2], addr[1], addr[0])
\* high: uint16((*ptr & 0xff) >> 2);  low: uint16((*ptr >> 48) & 0x3fff)
GetTag(layout, w) ==
    IF layout = "high"
    THEN LowBits(w[0], 8) \div 4
    ELSE LowBits(w[3], 14)
\* high: *ptr = (*ptr & uint64(0xffffff00)) + (*ptr & 0x3) + uint64(tag<<2)&0xff
\*       (tag<<2 is a uint16 shift)
\* low:  *ptr = (*ptr)&(1<<48-1) + *ptr&(uint64(1)<<63) + uint64(tag&0x3fff)<<48
SetTag(layout, w, tag) ==
    IF layout = "high"
    THEN Word(0, 0, w[1],
              ClearLow(w[0], 8) + LowBits(w[0], 2)
                 + LowBits((tag * 4) % Radix, 8))
    ELSE Word(Bit(w[3], 15) * (2 ^ 15) + LowBits(tag, 14), w[2], w[1], w[0])
\* high: uint64(*entry)&0x1 != 0;  low: (uint64(*entry) >> 63) != 0
IsTentative(layout, w) ==
    IF layout = "high" THEN Bit(w[0], 0) # 0 ELSE Bit(w[3], 15) # 0
\* high: *(*uint64)(entry) |= 0x1;  low: *(*uint64)(entry) |= uint64(1) << 63
SetTentative(layout, w) ==
    IF layout = "high"
    THEN [w EXCEPT ![0] = SetBit(@, 0)]
    ELSE [w EXCEPT ![3] = SetBit(@, 15)]

\* The limbs of the initial words: zero, all ones, and 0x55aa, whose bits
\* alternate (in both layouts it sets the reserved bit and not the tentative
\* one).
SomeLimbs == {0, 21930, Radix - 1}
\* Addresses in [0, 2^48): 0, 1, 2^16, 2^32 + 1 and 2^48 - 1.
SomeAddresses ==
    { Word(0, 0, 0, 0), Word(0, 0, 0, 1), Word(0, 0, 1, 0), Word(0, 1, 0, 1),
      Word(0, Radix - 1, Radix - 1, Radix - 1) }
\* Tags in [0, 2^14): 0, 1, 2^6 - 1, 2^6 and 2^14 - 1.
SomeTags == {0, 1, 63, 64, 2 ^ 14 - 1}

InitHashBucketEntry ==
    /\ NewLightEpoch
    /\ \E layout \in Layouts : \E l3 \in SomeLimbs, l2 \in SomeLimbs,
                                  l1 \in SomeLimbs, l0 \in SomeLimbs :
          bucketEntry = [layout |-> layout, word |-> Word(l3, l2, l1, l0),
                         calls |-> << >>, addr |-> Word(0, 0, 0, 0),
                         tag |-> 0]
    /\ hashTable = Nil
    /\ alloc = Nil
    /\ db = Nil
\* A call on the entry: its new word, and the record of the call.
EntryCall(name, w, addr, tag) ==
    /\ Len(bucketEntry.calls) < MaxCalls
    /\ bucketEntry' = [bucketEntry EXCEPT !.word = w,
                                          !.calls = Append(@, name),
                                          !.addr = addr, !.tag = tag]
    /\ UNCHANGED <<epochVars, hashTable, alloc, db>>
CallSetAddress ==
    \E addr \in SomeAddresses :
        EntryCall("SetAddress",
                  SetAddress(bucketEntry.layout, bucketEntry.word, addr),
                  addr, bucketEntry.tag)
CallSetTag ==
    \E tag \in SomeTags :
        EntryCall("SetTag", SetTag(bucketEntry.layout, bucketEntry.word, tag),
                  bucketEntry.addr, tag)
CallSetTentative ==
    EntryCall("SetTentative",
              SetTentative(bucketEntry.layout, bucketEntry.word),
              bucketEntry.addr, bucketEntry.tag)
NextEntry == CallSetAddress \/ CallSetTag \/ CallSetTentative

SpecEntry == InitHashBucketEntry /\ [][NextEntry]_vars

\* ----------------------------------------------------------------------- C23
\* C23: from any entry word, SetAddress(a) then SetTag(t) gives
\* GetAddress() = a and GetTag() = t for a in [0, 2^48) and t in [0, 2^14),
\* and a SetTentative() after them keeps both and makes IsTentative() true.
C23_RoundTrip ==
    LET e == bucketEntry
        kept == /\ GetAddress(e.layout, e.word) = e.addr
                /\ GetTag(e.layout, e.word) = e.tag
    IN  /\ e.calls = <<"SetAddress", "SetTag">> => kept
        /\ e.calls = <<"SetAddress", "SetTag", "SetTentative">> =>
              kept /\ IsTentative(e.layout, e.word)

\* ----------------------------------------------------------------------- C24
\* The tag and the reserved bit as the layouts place them:
\* high | 48-bit address | 14-bit tag | 1-bit reserved | 1-bit tentative |,
\* low  | 1-bit tentative | 1-bit reserved | 14-bit tag | 48-bit address |.
TagField(layout, w) ==
    IF layout = "high" THEN w[0] \div 4 ELSE LowBits(w[3], 14)
ReservedField(layout, w) ==
    IF layout = "high" THEN Bit(w[0], 1) ELSE Bit(w[3], 14)
\* The call that the step makes on the entry.
Calls(name) ==
    /\ Len(bucketEntry'.calls) = Len(bucketEntry.calls) + 1
    /\ bucketEntry'.calls[Len(bucketEntry'.calls)] = name
\* What a step leaves of the entry as it was.
SameAddress ==
    GetAddress(bucketEntry.layout, bucketEntry.word)' =
        GetAddress(bucketEntry.layout, bucketEntry.word)
SameTag ==
    /\ TagField(bucketEntry.layout, bucketEntry.word)' =
           TagField(bucketEntry.layout, bucketEntry.word)
    /\ GetTag(bucketEntry.layout, bucketEntry.word)' =
           GetTag(bucketEntry.layout, bucketEntry.word)
SameTentative ==
    IsTentative(bucketEntry.layout, bucketEntry.word)' =
        IsTentative(bucketEntry.layout, bucketEntry.word)
SameReserved ==
    ReservedField(bucketEntry.layout, bucketEntry.word)' =
        ReservedField(bucketEntry.layout, bucketEntry.word)
\* C24: from any entry word, SetAddress leaves the tag, tentative and
\* reserved fields as they were, SetTag leaves the address, tentative and
\* reserved fields as they were, SetTentative leaves address, tag and
\* reserved as they were; SetTag(t) then SetAddress(a) gives GetTag() = t
\* and GetAddress() = a.
C24_FieldIsolation ==
    /\ [][ /\ Calls("SetAddress") =>
                 SameTag /\ SameTentative /\ SameReserved
           /\ Calls("SetTag") =>
                 SameAddress /\ SameTentative /\ SameReserved
           /\ Calls("SetTentative") =>
                 SameAddress /\ SameTag /\ SameReserved
         ]_vars
    /\ [](bucketEntry.calls = <<"SetTag", "SetAddress">> =>
             /\ GetTag(bucketEntry.layout, bucketEntry.word) = bucketEntry.tag
             /\ GetAddress(bucketEntry.layout, bucketEntry.word) =
                   bucketEntry.addr)

\* --------------------------------------------------------- aligned buffers
\* Width of int, uint64 and uintptr where buffers are allocated (64 in the
\* source, scaled down).
WordBits == 12
CacheLineSize == 64
WordMod == 2 ^ WordBits
\* The largest int of that width.
MaxWordInt == 2 ^ (WordBits - 1) - 1
\* Conversion to int and to uint64/uintptr: the value modulo 2^WordBits.
ToUint(x) == x % WordMod
ToInt(x) == IF ToUint(x) > MaxWordInt THEN ToUint(x) - WordMod ELSE ToUint(x)
\* The nil slice, and a slice of len bytes whose first byte is at base.
NilBuffer == [base |-> 0, len |-> 0]
Buffer(base, len) == [base |-> base, len |-> len]
\* make([]byte, n) panics when n is negative; otherwise the n zero bytes lie
\* at an address of the runtime's choice, which is not nil and leaves room
\* for them below 2^WordBits.
Bases(n) == {b \in 1 .. WordMod - 1 : b + n <= WordMod}
\* alignedAlloc with the start left at the first byte of the buffer.
alignedAllocNoOffset(alignment, size, base) ==
    IF alignment <= 0 \/ size <= 0
    THEN [panic |-> FALSE, origin |-> NilBuffer, start |-> 0]
    ELSE IF ToInt(size + alignment - 1) <= 0
    THEN [panic |-> TRUE, origin |-> NilBuffer, start |-> 0]
    ELSE [panic |-> FALSE, origin |-> Buffer(base, size + alignment - 1),
          start |-> base]
\* alignedAlloc with the offset added although the first byte is aligned.
alignedAllocAlwaysOffset(alignment, size, base) ==
    IF alignment <= 0 \/ size <= 0
    THEN [panic |-> FALSE, origin |-> NilBuffer, start |-> 0]
    ELSE IF ToInt(size + alignment - 1) <= 0
    THEN [panic |-> TRUE, origin |-> NilBuffer, start |-> 0]
    ELSE [panic |-> FALSE, origin |-> Buffer(base, size + alignment - 1),
          start |-> ToUint(base + alignment - (base % alignment))]
\* alignedAlloc without the test of size.
alignedAllocAnySize(alignment, size, base) ==
    IF alignment <= 0
    THEN [panic |-> FALSE, origin |-> NilBuffer, start |-> 0]
    ELSE IF ToInt(size + alignment - 1) <= 0
    THEN [panic |-> TRUE, origin |-> NilBuffer, start |-> 0]
    ELSE [panic |-> FALSE, origin |-> Buffer(base, size + alignment - 1),
          start |-> IF base % alignment # 0
                    THEN ToUint(base + alignment - (base % alignment))
                    ELSE base]
\* alignedAlloc(alignment, size), with its buffer placed at base: whether it
\* panics, and the origin and the start it returns.  make panics for a
\* negative length, and &origin[0] for an empty buffer.
alignedAlloc(alignment, size, base) ==
    IF alignment <= 0 \/ size <= 0
    THEN [panic |-> FALSE, origin |-> NilBuffer, start |-> 0]
    ELSE LET n == ToInt(size + alignment - 1)
             rem == ToUint(base) % ToUint(alignment)
             offset == ToInt(alignment - ToInt(rem))
         IN  IF n <= 0
             THEN [panic |-> TRUE, origin |-> NilBuffer, start |-> 0]
             ELSE [panic |-> FALSE, origin |-> Buffer(base, n),
                   start |-> IF rem # 0 THEN ToUint(base + ToUint(offset))
                             ELSE base]
\* The arguments of the calls: the ints -1, 0, 1, 2, 3, CacheLineSize, 20
\* cache lines and the largest two ints.
SomeInts == {-1, 0, 1, 2, 3, CacheLineSize, CacheLineSize * 20,
             MaxWordInt - 1, MaxWordInt}
NotCalled == [called |-> FALSE, alignment |-> 0, size |-> 0, panic |-> FALSE,
              origin |-> NilBuffer, start |-> 0, test |-> "none"]
InitAlloc ==
    /\ NewLightEpoch
    /\ bucketEntry = Nil
    /\ hashTable = Nil
    /\ alloc = NotCalled
    /\ db = Nil
\* One call of alignedAlloc, wherever make places the buffer.
CallAlignedAlloc ==
    /\ ~alloc.called
    /\ \E alignment \in SomeInts, size \in SomeInts :
       \E base \in Bases(IF ToInt(size + alignment - 1) > 0
                         THEN ToInt(size + alignment - 1) ELSE 1) :
          LET r == alignedAlloc(alignment, size, base)
          IN  alloc' = [called |-> TRUE, alignment |-> alignment,
                        size |-> size, panic |-> r.panic, origin |-> r.origin,
                        start |-> r.start, test |-> "none"]
    /\ UNCHANGED <<epochVars, bucketEntry, hashTable, db>>
\* getFirstAddress(buf)
getFirstAddress(buf) == IF buf # NilBuffer /\ buf.len # 0 THEN buf.base ELSE 0
\* TestAlignedAlloc: alignment, size := 64, 64*20, and the two checks.
TestAlignedAlloc ==
    /\ ~alloc.called
    /\ LET alignment == 64
           size == 64 * 20
       IN  \E base \in Bases(size + alignment - 1) :
              LET r == alignedAlloc(alignment, size, base)
                  originPtr == getFirstAddress(r.origin)
                  errors ==
                     \/ ToUint(r.start) % ToUint(alignment) # 0
                     \/ r.start < originPtr
                     \/ ToUint(r.start + ToUint(size)) >=
                           ToUint(ToUint(originPtr + ToUint(size + alignment))
                                  - 1)
              IN  alloc' = [called |-> TRUE, alignment |-> alignment,
                            size |-> size, panic |-> r.panic,
                            origin |-> r.origin, start |-> r.start,
                            test |-> IF errors THEN "fail" ELSE "pass"]
    /\ UNCHANGED <<epochVars, bucketEntry, hashTable, db>>
NextAlloc == CallAlignedAlloc \/ TestAlignedAlloc

SpecAlloc == InitAlloc /\ [][NextAlloc]_vars

\* ----------------------------------------------------------------------- C27
\* What the call returned: no panic, a buffer of size + alignment - 1 bytes,
\* and a start that is a multiple of alignment, at most alignment - 1 bytes
\* behind the first byte, with size bytes before the buffer ends.
AlignedResult ==
    /\ ~alloc.panic
    /\ alloc.origin # NilBuffer
    /\ alloc.origin.len = alloc.size + alloc.alignment - 1
    /\ alloc.start % alloc.alignment = 0
    /\ alloc.start >= alloc.origin.base
    /\ alloc.start + alloc.size <= alloc.origin.base + alloc.origin.len
    /\ alloc.start - alloc.origin.base \in 0 .. alloc.alignment - 1
C29_EmptyResult ==
    (alloc.called /\ (alloc.alignment <= 0 \/ alloc.size <= 0)) =>
        /\ ~alloc.panic
        /\ alloc.origin = NilBuffer
        /\ alloc.start = 0
C29_Witness ==
    /\ alloc.called
    /\ alloc.alignment = 64
    /\ alloc.size = 0
    /\ alloc.origin = NilBuffer

\* -------------------------------------------------------------- hash table
\* The goroutines that call GetBucket.
NumCallers == 2
HashCallers == 1 .. NumCallers
Keys == {"a", "b", "c"}
\* The bytes of the keys, as numbers.
KeyCode(key) == IF key = "a" THEN 97 ELSE IF key = "b" THEN 98 ELSE 99
\* hash.Hash64 objects: the nil interface, and two multiplicative hashes
\* that start from seed and take in one key at a time.
NilHash == [nil |-> TRUE, seed |-> 0, mult |-> 0]
SomeHashes == { [nil |-> FALSE, seed |-> 0, mult |-> 1],
                [nil |-> FALSE, seed |-> 2166, mult |-> 403] }
\* hash.Sum64() after the keys of written have gone through hash.Write.
RECURSIVE Sum64(_, _)
Sum64(hash, written) ==
    IF written = << >> THEN hash.seed
    ELSE ToUint(Sum64(hash, SubSeq(written, 1, Len(written) - 1)) * hash.mult
                + KeyCode(written[Len(written)]))
\* x & y for uint64 x and y.
RECURSIVE BitAndBelow(_, _, _)
BitAndBelow(x, y, n) ==
    IF n = 0 THEN 0
    ELSE BitAndBelow(x, y, n - 1) + Bit(x, n - 1) * Bit(y, n - 1) * 2 ^ (n - 1)
BitAnd(x, y) == BitAndBelow(x, y, WordBits)
\* Whether a uint64 is a power of two.
isPowerOfTwo(size) == \E k \in 0 .. WordBits - 1 : size = 2 ^ k
\* The table sizes: 0, powers of two (a table of 2^(WordBits-7) buckets fills
\* the largest buffer, the bytes of 2^(WordBits-7) times 2 buckets are no
\* int, those of 2^(WordBits-6) buckets no uint64), and 3, 6, 12.
SomeSizes == {0, 1, 2, 3, 4, 6, 12, 2 ^ (WordBits - 8), 2 ^ (WordBits - 7),
              2 ^ (WordBits - 6), 2 ^ (WordBits - 5)}
\* Where make places a buffer of n bytes: the lowest addresses around a
\* cache line boundary, and the highest address.
SomeBases(n) == {b \in Bases(n) : b \in 1 .. 2 \/ b \in 63 .. 65
                                   \/ b = WordMod - n}
NoTable == [made |-> FALSE, panic |-> "none", size |-> 0, hash |-> NilHash,
            data |-> 0, len |-> 0, buf |-> NilBuffer, written |-> << >>,
            pc |-> [c \in HashCallers |-> "idle"],
            key |-> [c \in HashCallers |-> "a"],
            ret |-> [c \in HashCallers |-> -1],
            got |-> [k \in Keys |-> -1]]
\* NewHashTable(size, hash), with the buffer of its buckets placed at base:
\* the panic, if any, beside the arguments, or the table.
\* The buckets are the CacheLineSize-byte cells from data on; buf are the
\* zero bytes that make allocated for them.
NewHashTable(size, hash, base) ==
    IF size < 0 \/ ~isPowerOfTwo(size)
    THEN [NoTable EXCEPT !.made = TRUE, !.panic = "size", !.size = size,
                         !.hash = hash]
    ELSE IF hash.nil
    THEN [NoTable EXCEPT !.made = TRUE, !.panic = "hash", !.size = size,
                         !.hash = hash]
    ELSE LET r == alignedAlloc(CacheLineSize,
                               ToInt(ToUint(size * CacheLineSize)), base)
         IN  IF r.panic
             THEN [NoTable EXCEPT !.made = TRUE, !.panic = "make",
                                  !.size = size, !.hash = hash]
             ELSE [NoTable EXCEPT !.made = TRUE, !.size = size,
                                  !.hash = hash, !.data = r.start,
                                  !.len = ToInt(size), !.buf = r.origin]
InitHash ==
    /\ NewLightEpoch
    /\ bucketEntry = Nil
    /\ hashTable = NoTable
    /\ alloc = Nil
    /\ db = Nil
CallNewHashTable ==
    /\ ~hashTable.made
    /\ \E size \in SomeSizes, hash \in SomeHashes \cup {NilHash} :
       \E base \in SomeBases(IF size * CacheLineSize + CacheLineSize - 1
                                  <= MaxWordInt
                             THEN size * CacheLineSize + CacheLineSize - 1
                             ELSE 1) :
          hashTable' = NewHashTable(size, hash, base)
    /\ UNCHANGED <<epochVars, bucketEntry, alloc, db>>
\* bucketIdxForHash with the size as the mask.
bucketIdxForHashSize(hash, size) == BitAnd(hash, size)
\* hash & (size - 1)
bucketIdxForHash(hash, size) == BitAnd(hash, ToUint(size - 1))
\* A table that NewHashTable returned.
HasTable == hashTable.made /\ hashTable.panic = "none"
\* No other goroutine is inside GetBucket.
HashAlone(c) == \A d \in HashCallers \ {c} : hashTable.pc[d] = "idle"
\* table.hash.Reset()
GetBucketReset(c, key) ==
    /\ HasTable
    /\ hashTable.pc[c] = "idle"
    /\ hashTable' = [hashTable EXCEPT !.written = << >>, !.pc[c] = "write",
                                      !.key[c] = key, !.ret[c] = -1]
    /\ UNCHANGED <<epochVars, bucketEntry, alloc, db>>
\* table.hash.Write([]byte(key))
GetBucketWrite(c) ==
    /\ hashTable.pc[c] = "write"
    /\ hashTable' = [hashTable EXCEPT !.written = Append(@, hashTable.key[c]),
                                      !.pc[c] = "sum"]
    /\ UNCHANGED <<epochVars, bucketEntry, alloc, db>>
\* code := table.hash.Sum64(); idx := bucketIdxForHash(code, table.size);
\* return &table.buckets[idx]
GetBucketSum(c) ==
    /\ hashTable.pc[c] = "sum"
    /\ LET code == Sum64(hashTable.hash, hashTable.written)
           idx == bucketIdxForHash(code, hashTable.size)
           bucket == ToUint(hashTable.data + idx * CacheLineSize)
       IN  hashTable' = [hashTable EXCEPT !.pc[c] = "idle", !.ret[c] = bucket,
                                          !.got[hashTable.key[c]] = bucket]
    /\ UNCHANGED <<epochVars, bucketEntry, alloc, db>>
\* GetBucket calls that do not overlap.
GetBucketAlone(c) == HashAlone(c) /\ \E key \in Keys : GetBucketReset(c, key)
NextHash ==
    \/ CallNewHashTable
    \/ \E c \in HashCallers :
          \/ GetBucketAlone(c)
          \/ GetBucketWrite(c)
          \/ GetBucketSum(c)

SpecHash == InitHash /\ [][NextHash]_vars

\* ----------------------------------------------------------------------- C26
\* Every bucket of the table lies in the zero bytes that make allocated (no
\* operation of the table stores to them).
BucketsZero ==
    /\ hashTable.buf # NilBuffer
    /\ hashTable.data >= hashTable.buf.base
    /\ hashTable.data + hashTable.size * CacheLineSize <=
          hashTable.buf.base + hashTable.buf.len
\* C26: NewHashTable(size, hashFn) fails fatally when size is no power of
\* two or hashFn is nil, and otherwise returns a table of exactly size
\* buckets, all of whose entries are zero.
C26_NewHashTable ==
    hashTable.made =>
        IF ~isPowerOfTwo(hashTable.size) \/ hashTable.hash.nil
        THEN hashTable.panic \in {"size", "hash"}
        ELSE /\ hashTable.panic = "none"
             /\ hashTable.len = hashTable.size
             /\ BucketsZero

\* ----------------------------------------------------------------------- C25
\* The hash of a key by the table's hash function.
HashOf(key) == Sum64(hashTable.hash, <<key>>)
\* The address of the bucket at index idx.
BucketAt(idx) == ToUint(hashTable.data + idx * CacheLineSize)
\* The step in which GetBucket returns to caller c.
GetBucketReturns(c) == hashTable.pc[c] = "sum" /\ hashTable'.pc[c] = "idle"
\* C25: on a table that NewHashTable made, GetBucket(key) returns the bucket
\* at index hash(key) & (size - 1), an index in [0, size); calls that do not
\* overlap return the same bucket for the same key and for keys whose
\* hashes agree modulo size; GetBucket changes no bucket.
C25_GetBucket ==
    /\ [][\A c \in HashCallers :
             /\ GetBucketReturns(c) =>
                   LET idx == BitAnd(HashOf(hashTable.key[c]),
                                     hashTable.size - 1)
                   IN  /\ idx \in 0 .. hashTable.size - 1
                       /\ idx = HashOf(hashTable.key[c]) % hashTable.size
                       /\ hashTable'.ret[c] = BucketAt(idx)
                       /\ hashTable.got[hashTable.key[c]] \in
                             {-1, hashTable'.ret[c]}
             /\ hashTable.pc[c] # "idle" =>
                   /\ hashTable'.data = hashTable.data
                   /\ hashTable'.len = hashTable.len
                   /\ hashTable'.size = hashTable.size
                   /\ hashTable'.buf = hashTable.buf
                   /\ bucketEntry' = bucketEntry
         ]_vars
    /\ [](\A j \in Keys, k \in Keys :
             (/\ HasTable
              /\ hashTable.got[j] # -1
              /\ hashTable.got[k] # -1
              /\ HashOf(j) % hashTable.size = HashOf(k) % hashTable.size)
             => hashTable.got[j] = hashTable.got[k])
C25_Witness ==
    /\ HasTable
    /\ hashTable.size = 2
    /\ HashOf("a") # HashOf("c")
    /\ hashTable.got["a"] = hashTable.got["c"]
    /\ hashTable.got["a"] # -1
    /\ hashTable.got["b"] \notin {-1, hashTable.got["a"]}

\* ---------------------------------------------------------------- database
NotFound == 0
Corruption == 1
NotSupported == 2
InvalidArgument == 3
IOError == 4
\* &DBError{code, status}, and the nil error.
DBError(code, status) == [isDBError |-> TRUE, Code |-> code, Status |-> status]
NoError == [isDBError |-> FALSE, Code |-> 0, Status |-> ""]
IsNotFoundError(err) == IF err.isDBError THEN err.Code = NotFound ELSE FALSE
IsCorruptionError(err) ==
    IF err.isDBError THEN err.Code = Corruption ELSE FALSE
IsNotSupportedError(err) ==
    IF err.isDBError THEN err.Code = NotSupported ELSE FALSE
IsInvalidArgumentError(err) ==
    IF err.isDBError THEN err.Code = InvalidArgument ELSE FALSE
IsIOError(err) == IF err.isDBError THEN err.Code = IOError ELSE FALSE
\* NewOptions(), and options that differ from it.
NewOptions == [CreateIfMissing |-> TRUE, ErrorIfExists |-> TRUE,
               ParanoidChecks |-> FALSE, WriteBufferSize |-> 4 * 2 ^ 20,
               MaxOpenFiles |-> 1000, Compression |-> 1]
SomeOptions == {NewOptions,
                [NewOptions EXCEPT !.CreateIfMissing = FALSE,
                                   !.Compression = 0]}
DBNames == {"", "db", "other"}
DBKeys == {"", "a", "b"}
DBValues == {"", "v"}
\* preCheckKeyValue without the test of the key.
preCheckKeyValueAny(key, value) == NoError
\* preCheckKeyValue(key, value *string); Nil is the nil pointer.
preCheckKeyValue(key, value) ==
    IF key # Nil /\ key = ""
    THEN DBError(InvalidArgument, "key must not be empty")
    ELSE NoError
\* NewDB(name, options), before any call.
NewDB(name, options) ==
    [name |-> name, options |-> options, op |-> "none", key |-> "",
     arg |-> "", value |-> "", err |-> NoError]
InitDB ==
    /\ NewLightEpoch
    /\ bucketEntry = Nil
    /\ hashTable = Nil
    /\ alloc = Nil
    /\ \E name \in DBNames, options \in SomeOptions : db = NewDB(name, options)
\* The database after a call has returned: the operation, its key and value
\* arguments, the string and the error returned.
Returned(op, key, arg, value, err) ==
    [db EXCEPT !.op = op, !.key = key, !.arg = arg, !.value = value,
               !.err = err]
Unimplemented == DBError(NotSupported, "unimplemented")
DestroyDB ==
    /\ \E name \in DBNames, options \in SomeOptions :
          db' = Returned("DestroyDB", "", "", "", Unimplemented)
    /\ UNCHANGED <<epochVars, bucketEntry, hashTable, alloc>>
RepairDB ==
    /\ \E name \in DBNames, options \in SomeOptions :
          db' = Returned("RepairDB", "", "", "", Unimplemented)
    /\ UNCHANGED <<epochVars, bucketEntry, hashTable, alloc>>
Open ==
    /\ db' = Returned("Open", "", "", "", Unimplemented)
    /\ UNCHANGED <<epochVars, bucketEntry, hashTable, alloc>>
Close ==
    /\ db' = Returned("Close", "", "", "", Unimplemented)
    /\ UNCHANGED <<epochVars, bucketEntry, hashTable, alloc>>
Put ==
    /\ \E key \in DBKeys, value \in DBValues :
          db' = Returned("Put", key, value, "",
                         IF preCheckKeyValue(key, value) # NoError
                         THEN preCheckKeyValue(key, value)
                         ELSE Unimplemented)
    /\ UNCHANGED <<epochVars, bucketEntry, hashTable, alloc>>
ReadModifyWrite ==
    /\ \E key \in DBKeys, value \in DBValues :
          db' = Returned("ReadModifyWrite", key, value, "",
                         IF preCheckKeyValue(key, value) # NoError
                         THEN preCheckKeyValue(key, value)
                         ELSE Unimplemented)
    /\ UNCHANGED <<epochVars, bucketEntry, hashTable, alloc>>
Get ==
    /\ \E key \in DBKeys :
          db' = Returned("Get", key, "", "",
                         IF preCheckKeyValue(key, Nil) # NoError
                         THEN preCheckKeyValue(key, Nil)
                         ELSE Unimplemented)
    /\ UNCHANGED <<epochVars, bucketEntry, hashTable, alloc>>
Delete ==
    /\ \E key \in DBKeys :
          db' = Returned("Delete", key, "", "",
                         IF preCheckKeyValue(key, Nil) # NoError
                         THEN preCheckKeyValue(key, Nil)
                         ELSE Unimplemented)
    /\ UNCHANGED <<epochVars, bucketEntry, hashTable, alloc>>
NextDB ==
    \/ DestroyDB \/ RepairDB \/ Open \/ Close
    \/ Put \/ ReadModifyWrite \/ Get \/ Delete

SpecDB == InitDB /\ [][NextDB]_vars

\* ----------------------------------------------------------------------- C30
KeyOps == {"Put", "ReadModifyWrite", "Get", "Delete"}
\* How many of the five Is...Error functions accept the error.
Accepting(err) ==
    Cardinality({f \in 1 .. 5 :
                    \/ f = 1 /\ IsNotFoundError(err)
                    \/ f = 2 /\ IsCorruptionError(err)
                    \/ f = 3 /\ IsNotSupportedError(err)
                    \/ f = 4 /\ IsInvalidArgumentError(err)
                    \/ f = 5 /\ IsIOError(err)})
DeferRun(t) ==
    \/ ProtectStore(t) \/ ProtectReturn(t)
    \/ PadStore(t) \/ PadCheck(t) \/ PadArg(t) \/ PadReturn(t)
    \/ ScanEntry(t) \/ ScanStore(t)
    \/ DlLoad(t) \/ DlCmp(t)
    \/ PopCas(t) \/ PopRead(t) \/ PopClear(t) \/ PopRelease(t) \/ PopCall(t)
    \/ PopDec(t)
    \/ BumpCheck(t) \/ BumpReturn(t)
    \/ BwcLoad(t) \/ BwcCmp(t)
    \/ PushCas(t) \/ PushWrite(t) \/ PushRelease(t) \/ PushInc(t)
    \/ SwapCas(t) \/ SwapRead(t) \/ SwapWrite(t) \/ SwapRelease(t) \/ SwapCall(t)
    \/ BwcReturn(t)
NextDeferred ==
    \E t \in Threads :
        \/ ProtectLoad(t) \/ Unprotect(t) \/ PadLoad(t)
        \/ DrainCall(t) \/ BumpCurrentEpoch(t)
        \/ BumpCurrentEpochWithCallback(t)
        \/ DeferRun(t)
SpecDeferred ==
    /\ Init /\ [][NextDeferred]_vars
    /\ \A t \in Threads : WF_vars(DeferRun(t))

\* No registration is in progress, and no slot is protected at an epoch that
\* is not newer than the trigger epoch of every pending action.
Settled ==
    /\ \A t \in Threads :
          th[t].op = "BumpCurrentEpochWithCallback" => Idle(t)
    /\ \A j \in Slots, k \in Pending :
          LocalOf(j) = Unprotected \/ LocalOf(j) > drainList[k].atomicEpoch
\* Thread t has just called Drain(currentEpoch), BumpCurrentEpoch or
\* ProtectAndDrain: it holds the current epoch and has done nothing else.
DrainRequested(t) ==
    \/ /\ th[t].op = "Drain" /\ th[t].pc = "scan" /\ th[t].i = 1
       /\ th[t].arg = currentEpoch
    \/ /\ th[t].op = "BumpCurrentEpoch" /\ th[t].pc = "bump_chk"
       /\ th[t].next = currentEpoch
    \/ /\ th[t].op = "ProtectAndDrain" /\ th[t].pc = "pad_store"
       /\ th[t].next = currentEpoch
\* Every registered action has been executed and the drain list is empty.
AllExecuted ==
    /\ Pending = {}
    /\ \A c \in registered : fired[c] >= 1
    /\ drainCount = 0
\* C31: once no slot is protected at the epoch of a pending action any more
\* and a thread calls Drain(currentEpoch), BumpCurrentEpoch or
\* ProtectAndDrain, every registered action is eventually executed and
\* drainCount returns to 0.
C31_DeferredRun ==
    \A t \in Threads :
        (DrainRequested(t) /\ Pending # {} /\ []Settled) ~> AllExecuted

\* ----------------------------------------------------------------------- C32
\* Waiting for an epoch to become safe under fair scheduling: the threads
\* protect, unprotect, bump and wait, in both revisions, and every thread
\* that is inside a call keeps being scheduled.
WaitRun(t) ==
    \/ ProtectStore(t) \/ ProtectReturn(t)
    \/ BumpCheck(t) \/ BumpReturn(t)
    \/ ScanEntry(t) \/ ScanStore(t)
    \/ SpinLoad(t) \/ SpinTest(t) \/ SpinTestFaster(t)
NextWaitFair ==
    \E t \in Threads :
        \/ ProtectLoad(t) \/ Unprotect(t) \/ BumpCurrentEpoch(t)
        \/ SpinStart(t) \/ SpinStartFaster(t)
        \/ WaitRun(t)
SpecWaitFair ==
    /\ Init /\ [][NextWaitFair]_vars
    /\ \A t \in Threads : WF_vars(WaitRun(t))

\* Thread t is in SpinWaitForSafeToReclaim(currentEpoch, target) with
\* target <= currentEpoch - 1.
Waiting(t) ==
    /\ th[t].op \in SpinOps
    /\ ~Idle(t)
    /\ th[t].trig <= th[t].next - 1
\* No slot is protected at an epoch <= the target thread t waits for.
TargetLeft(t) ==
    Waiting(t) =>
       \A j \in Slots : LocalOf(j) = Unprotected \/ LocalOf(j) > th[t].trig
\* C32: SpinWaitForSafeToReclaim(currentEpoch, target) with
\* target <= currentEpoch - 1 returns once no slot stays protected at an
\* epoch <= target.
C32_SpinTerminates ==
    \A t \in Threads : (Waiting(t) /\ []TargetLeft(t)) ~> Idle(t)

\* ----------------------------------------------------------------------- C33
\* The places of a thread inside a push, a pop or a swap, the update of
\* drainCount that follows it included.
SlotOpPcs == {"push_cas", "push_write", "push_release", "push_inc",
              "pop_cas", "pop_read", "pop_clear", "pop_release", "pop_call",
              "pop_dec",
              "swap_cas", "swap_read", "swap_write", "swap_release",
              "swap_call"}
\* No push, pop or swap is in progress in any thread.
Quiescent == \A t \in Threads : th[t].pc \notin SlotOpPcs
\* The drain-list slots whose state is not Free.
NotFree == {k \in DrainIdx : drainList[k].atomicEpoch # epochFree}
\* C33: in every quiescent state drainCount is the number of drain-list
\* slots that are not Free, which is at most the size of the drain list.
C33_DrainCountExact ==
    Quiescent =>
       /\ drainCount = Cardinality(NotFree)
       /\ Cardinality(NotFree) <= drainListSize

\* ----------------------------------------------------------------------- C34
\* The places of a thread between a successful compare-and-swap on a slot
\* and the store that releases it.
HoldPcs == {"push_write", "push_release",
            "pop_read", "pop_clear", "pop_release",
            "swap_read", "swap_write", "swap_release"}
\* The threads that hold drain-list slot k Locked.
LockHolders(k) == {t \in Threads : th[t].pc \in HoldPcs /\ th[t].i = k}
\* The step moves the state of slot k as a push, a pop or a swap does.
SlotMove(k) ==
    LET old == drainList[k].atomicEpoch
        new == drainList'[k].atomicEpoch
    IN  \/ new = old
        \/ /\ old = epochFree /\ new = epochLocked
           /\ \E t \in Threads : th[t].pc = "push_cas" /\ th'[t].pc = "push_write"
        \/ /\ old \notin {epochFree, epochLocked} /\ new = epochLocked
           /\ \E t \in Threads :
                 \/ th[t].pc = "pop_cas" /\ th'[t].pc = "pop_read"
                 \/ th[t].pc = "swap_cas" /\ th'[t].pc = "swap_read"
        \/ /\ old = epochLocked /\ new = epochFree
           /\ \E t \in Threads : th[t].pc = "pop_release" /\ th'[t].pc # th[t].pc
        \/ /\ old = epochLocked /\ new \notin {epochFree, epochLocked}
           /\ \E t \in Threads :
                 /\ th[t].pc \in {"push_release", "swap_release"}
                 /\ th'[t].pc # th[t].pc
\* The step leaves the callback and the context of slot k alone, or it is a
\* step of the thread that holds the slot Locked.
FieldsGuarded(k) ==
    \/ /\ drainList'[k].callback = drainList[k].callback
       /\ drainList'[k].ctx = drainList[k].ctx
    \/ /\ drainList[k].atomicEpoch = epochLocked
       /\ \E t \in LockHolders(k) : th'[t] # th[t]
\* C34: a slot's state moves only Free -> Locked -> E (push),
\* E -> Locked -> Free (pop) or E -> Locked -> E' (swap); at most one thread
\* holds a slot Locked at a time; and the callback and the context of a slot
\* are read and written only by the thread that holds it Locked.
C34_SlotProtocol ==
    /\ [](\A k \in DrainIdx :
             /\ Cardinality(LockHolders(k)) <= 1
             /\ LockHolders(k) # {} => drainList[k].atomicEpoch = epochLocked)
    /\ [][\A k \in DrainIdx : SlotMove(k) /\ FieldsGuarded(k)]_vars

\* ----------------------------------------------------------------------- C35
\* IsProtected(entryIdx), called by thread t.
CallIsProtected(t) ==
    /\ Idle(t)
    /\ \E entryIdx \in Slots :
          Go(t, [Return(th[t], "IsProtected",
                        IF IsProtected(entryIdx) THEN 1 ELSE 0)
                   EXCEPT !.arg = entryIdx])
    /\ UNCHANGED <<currentEpoch, safeToReclaimEpoch, drainCount, entries,
                   tableUsed, drainList, fired, registered, returned,
                   crashed, prot>>

\* HasThreadFinishedPhase(entryIdx, phase), called by thread t.
CallHasThreadFinishedPhase(t) ==
    /\ Idle(t)
    /\ \E entryIdx \in Slots, phase \in Phases :
          Go(t, [Return(th[t], "HasThreadFinishedPhase",
                        IF HasThreadFinishedPhase(entryIdx, phase)
                        THEN 1 ELSE 0)
                   EXCEPT !.arg = entryIdx, !.tmp = phase])
    /\ UNCHANGED <<currentEpoch, safeToReclaimEpoch, drainCount, entries,
                   tableUsed, drainList, fired, registered, returned,
                   crashed, prot>>

\* ResetPhaseFinished of src/unnamed/part_000: the start of the call.
ResetPhaseFinished(t) ==
    /\ Idle(t)
    /\ th[t].depth = 0
    /\ Go(t, [Call(th[t], "ResetPhaseFinished", "reset_phase") EXCEPT !.i = 1])
    /\ UNCHANGED <<currentEpoch, safeToReclaimEpoch, drainCount, entries,
                   tableUsed, drainList, fired, registered, returned,
                   crashed, prot>>

\* for i := uint32(1); i < epoch.entryNum; i++: one store of RestPhase.
ResetPhaseStore(t) ==
    /\ At(t, "reset_phase")
    /\ th[t].i < entryNum
    /\ entries' = [entries EXCEPT
                     ![table(th[t].i)].atomicPhaseFinished = RestPhase]
    /\ Go(t, [th[t] EXCEPT !.i = @ + 1])
    /\ UNCHANGED <<currentEpoch, safeToReclaimEpoch, drainCount, tableUsed,
                   drainList, fired, registered, returned, crashed, prot>>

ResetPhaseReturn(t) ==
    /\ At(t, "reset_phase")
    /\ th[t].i >= entryNum
    /\ Go(t, Return(th[t], "ResetPhaseFinished", 0))
    /\ UNCHANGED <<currentEpoch, safeToReclaimEpoch, drainCount, entries,
                   tableUsed, drainList, fired, registered, returned,
                   crashed, prot>>

\* Every operation of the light epoch, one call at a time.  Thread 1 has not
\* reserved a slot yet: slot 1 is held by a caller that makes no call here.
InitFrame ==
    /\ currentEpoch = 1
    /\ safeToReclaimEpoch = 0
    /\ drainCount = 0
    /\ entries = [c \in Cells |-> InitEntry]
    /\ drainList = [k \in DrainIdx |-> InitAction]
    /\ tableUsed = [c \in Cells |-> IF c \in Slots THEN 1 ELSE 0]
    /\ th = [t \in Threads |->
               [Blank EXCEPT !.slot = IF t = 1 THEN InvalidIndex ELSE t]]
    /\ fired = [c \in Callbacks |-> 0]
    /\ registered = {}
    /\ returned = [e \in 1 .. SatEpoch |-> 0]
    /\ crashed = FALSE
    /\ prot = [c \in Callbacks |-> {}]
    /\ NoObjects
\* Thread 1 makes the calls that need no slot of its own, the others the
\* calls on their slot.
FrameProtect(t) == t # 1 /\ SeqProtect(t)
FrameUnprotect(t) == t # 1 /\ SeqUnprotect(t)
FrameReentrantProtect(t) == t # 1 /\ Alone(t) /\ RpRead(t)
FrameReentrantUnprotect(t) == t # 1 /\ Alone(t) /\ RuRead(t)
FrameRelease(t) == t # 1 /\ Alone(t) /\ ReleaseInit(t)
FrameMark(t) == t # 1 /\ Alone(t) /\ \E phase \in Phases : MarkStore(t, phase)
FrameProtectAndDrain(t) == t # 1 /\ SeqProtectAndDrain(t)
FrameIsProtected(t) == t = 1 /\ Alone(t) /\ CallIsProtected(t)
FrameIsSafeToReclaim(t) == t = 1 /\ Alone(t) /\ IsSafeCall(t)
FrameFind(t) == t = 1 /\ Alone(t) /\ FindStart(t)
FrameReset(t) == t = 1 /\ Alone(t) /\ ResetPhaseFinished(t)
FrameHasFinished(t) == t = 1 /\ Alone(t) /\ CallHasThreadFinishedPhase(t)
FrameDrain(t) == t = 1 /\ SeqDrain(t)
FrameBump(t) == t = 1 /\ SeqBump(t)
FrameBumpWithCallback(t) == t = 1 /\ SeqBumpWithCallback(t)
NextFrame ==
    \E t \in Threads :
        \/ FrameProtect(t) \/ ProtectStore(t) \/ ProtectReturn(t)
        \/ FrameUnprotect(t)
        \/ FrameReentrantProtect(t) \/ RpWrite(t) \/ RpTest(t) \/ RpLoad(t)
        \/ RpStore(t) \/ RpReturn(t)
        \/ FrameReentrantUnprotect(t) \/ RuWrite(t) \/ RuTest(t) \/ RuClear(t)
        \/ FrameIsProtected(t) \/ FrameIsSafeToReclaim(t)
        \/ FrameFind(t) \/ FindProbe(t) \/ FindPass(t)
        \/ FrameRelease(t) \/ ReleaseStore(t)
        \/ FrameReset(t) \/ ResetPhaseStore(t) \/ ResetPhaseReturn(t)
        \/ FrameMark(t) \/ MarkScan(t) \/ MarkReturn(t)
        \/ FrameHasFinished(t)
        \/ FrameProtectAndDrain(t) \/ PadStore(t) \/ PadCheck(t) \/ PadArg(t)
        \/ PadReturn(t)
        \/ ScanEntry(t) \/ ScanStore(t)
        \/ FrameDrain(t) \/ DlLoad(t) \/ DlCmp(t)
        \/ PopCas(t) \/ PopRead(t) \/ PopClear(t) \/ PopRelease(t) \/ PopCall(t)
        \/ PopDec(t)
        \/ FrameBump(t) \/ BumpCheck(t) \/ BumpReturn(t)
        \/ FrameBumpWithCallback(t)
        \/ BwcLoad(t) \/ BwcCmp(t)
        \/ PushCas(t) \/ PushWrite(t) \/ PushRelease(t) \/ PushInc(t)
        \/ BwcReturn(t)
SpecFrame == InitFrame /\ [][NextFrame]_vars

\* The operations that make no scan.
FrameOps == {"Protect", "Unprotect", "ReentrantProtect", "ReentrantUnprotect",
             "IsProtected", "IsSafeToReclaim", "FindAndReserveEmptyEntry",
             "ReleaseEntry", "ResetPhaseFinished", "MarkAndCheckIfFinished",
             "HasThreadFinishedPhase"}
\* Thread t is at the test of drainCount in BumpCurrentEpoch or
\* ProtectAndDrain, and drainCount is 0.
ChecksZero(t) ==
    /\ drainCount = 0
    /\ \/ th[t].op = "BumpCurrentEpoch" /\ th[t].pc = "bump_chk"
       \/ th[t].op = "ProtectAndDrain" /\ th[t].pc = "pad_chk"
\* C35: safeToReclaimEpoch is written only by the store that ends the scan of
\* ComputeNewSafeToReclaimEpoch; no step of Protect, Unprotect,
\* ReentrantProtect, ReentrantUnprotect, IsProtected, IsSafeToReclaim,
\* FindAndReserveEmptyEntry, ReleaseEntry, ResetPhaseFinished,
\* MarkAndCheckIfFinished or HasThreadFinishedPhase changes it, and a
\* BumpCurrentEpoch or ProtectAndDrain that finds drainCount = 0 goes to its
\* return without a scan.
C35_OnlyScanWrites ==
    [][/\ safeToReclaimEpoch' # safeToReclaimEpoch =>
             \E t \in Threads :
                /\ th[t].pc = "scan" /\ th[t].i > entryNum
                /\ th'[t].pc = "dl_load"
       /\ \A t \in Threads :
             /\ (th'[t] # th[t] /\ th'[t].op \in FrameOps) =>
                   safeToReclaimEpoch' = safeToReclaimEpoch
             /\ (ChecksZero(t) /\ th'[t] # th[t]) =>
                   /\ th'[t].pc \in {"bump_ret", "pad_ret"}
                   /\ safeToReclaimEpoch' = safeToReclaimEpoch
             /\ (th[t].pc \in {"bump_ret", "pad_ret"} /\ th'[t] # th[t]) =>
                   /\ th'[t].pc = "idle"
                   /\ safeToReclaimEpoch' = safeToReclaimEpoch
      ]_vars
\* BumpCurrentEpoch has found drainCount = 0 and is about to return 3 while
\* safeToReclaimEpoch is still 1: a scan would have raised it.
C35_Witness ==
    \E t \in Threads :
        /\ At(t, "bump_ret")
        /\ th[t].op = "BumpCurrentEpoch"
        /\ drainCount = 0
        /\ th[t].next = 3
        /\ safeToReclaimEpoch = 1

\* ----------------------------------------------------------------------- C36
\* The step is one of ProtectAndDrain of thread t.
InPad(t) == th[t].op = "ProtectAndDrain" /\ th'[t] # th[t]
\* C36: ProtectAndDrain(slot) returns the global epoch it read and leaves it
\* in the slot's localCurrentEpoch; it runs a drain pass exactly when its
\* load of drainCount is > 0; and that pass executes no action whose trigger
\* epoch is >= the epoch returned.
C36_ProtectAndDrain ==
    [][\A t \in Threads :
          /\ (InPad(t) /\ th[t].pc = "pad_ret") =>
                /\ th'[t].ret = th[t].next
                /\ LocalOf(th[t].slot) = th'[t].ret
          /\ (InPad(t) /\ th[t].pc = "pad_chk") =>
                (th'[t].pc = "pad_arg") <=> (drainCount > 0)
          /\ (InPad(t) /\ th[t].pc = "pad_arg") =>
                th'[t].pc = "scan" /\ th'[t].arg = th[t].next
          /\ (InPad(t) /\ th[t].pc = "pop_call") => th[t].trig < th[t].next
      ]_vars

\* ----------------------------------------------------------------------- C37
\* GetBucket calls of several goroutines on one table, overlapping freely:
\* Reset, Write and Sum64 act on the one hash object of the table.
NextHashRace ==
    \/ CallNewHashTable
    \/ \E c \in HashCallers :
          \/ (\E key \in Keys : GetBucketReset(c, key))
          \/ GetBucketWrite(c)
          \/ GetBucketSum(c)

SpecHashRace == InitHash /\ [][NextHashRace]_vars

\* C37: when callers are in GetBucket on the same table at the same time,
\* under every interleaving of their Reset, Write and Sum64 steps each call
\* returns the bucket at index hash(its own key) & (size - 1).
C37_RaceFreeAddressing ==
    [][\A c \in HashCallers :
          GetBucketReturns(c) =>
             hashTable'.ret[c] =
                BucketAt(bucketIdxForHash(HashOf(hashTable.key[c]),
                                          hashTable.size))
      ]_vars

\* ----------------------------------------------------------------------- C38
\* The setters of one entry called by several goroutines at once.  Each
\* setter is a plain read of *ptr, a computation and a plain store to *ptr;
\* SetTag reads *ptr twice, and the build may load it once or twice.
EntryCallers == 1 .. NumCallers
InitEntryRace ==
    /\ NewLightEpoch
    /\ \E layout \in Layouts : \E l3 \in SomeLimbs, l2 \in SomeLimbs,
                                  l1 \in SomeLimbs, l0 \in SomeLimbs :
          bucketEntry = [layout |-> layout, word |-> Word(l3, l2, l1, l0),
                         init |-> Word(l3, l2, l1, l0),
                         written |-> {},
                         pc |-> [c \in EntryCallers |-> "idle"],
                         name |-> [c \in EntryCallers |-> "none"],
                         loaded |-> [c \in EntryCallers |-> Word(0, 0, 0, 0)],
                         addr |-> Word(0, 0, 0, 0),
                         tag |-> 0]
    /\ hashTable = Nil
    /\ alloc = Nil
    /\ db = Nil
\* The read of *ptr that starts the setter name of caller c.
SetterLoad(c, name) ==
    /\ bucketEntry.pc[c] = "idle"
    /\ bucketEntry' = [bucketEntry EXCEPT !.pc[c] = "store",
                                          !.name[c] = name,
                                          !.loaded[c] = bucketEntry.word]
    /\ UNCHANGED <<epochVars, hashTable, alloc, db>>
\* The store to *ptr that ends the setter of caller c; addr and tag are the
\* last arguments given to SetAddress and SetTag.
SetterStore(c, name, w, addr, tag) ==
    /\ bucketEntry.pc[c] = "store"
    /\ bucketEntry.name[c] = name
    /\ bucketEntry' = [bucketEntry EXCEPT !.pc[c] = "done", !.word = w,
                                          !.written = @ \cup {w},
                                          !.addr = addr, !.tag = tag]
    /\ UNCHANGED <<epochVars, hashTable, alloc, db>>
\* The word SetTag works on when its first read of *ptr gave first and its
\* second read, of the tentative bit (low) or of the two low bits (high),
\* gave second.
TwoReads(layout, first, second) ==
    IF layout = "high"
    THEN [first EXCEPT ![0] = ClearLow(first[0], 8) + LowBits(second[0], 8)]
    ELSE [first EXCEPT ![3] = second[3]]
\* Caller 1 sets the address; the other callers set the tag or the tentative
\* bit.
SetAddressLoad(c) == c = 1 /\ SetterLoad(c, "SetAddress")
SetAddressStore(c) ==
    /\ c = 1
    /\ \E addr \in SomeAddresses :
          SetterStore(c, "SetAddress",
                      SetAddress(bucketEntry.layout, bucketEntry.loaded[c],
                                 addr),
                      addr, bucketEntry.tag)
SetTagLoad(c) == c # 1 /\ SetterLoad(c, "SetTag")
SetTagStore(c) ==
    \E tag \in SomeTags, second \in {bucketEntry.loaded[c], bucketEntry.word} :
        SetterStore(c, "SetTag",
                    SetTag(bucketEntry.layout,
                           TwoReads(bucketEntry.layout, bucketEntry.loaded[c],
                                    second),
                           tag),
                    bucketEntry.addr, tag)
SetTentativeLoad(c) == c # 1 /\ SetterLoad(c, "SetTentative")
SetTentativeStore(c) ==
    /\ c # 1
    /\ SetterStore(c, "SetTentative",
                   SetTentative(bucketEntry.layout, bucketEntry.loaded[c]),
                   bucketEntry.addr, bucketEntry.tag)
NextEntryRace ==
    \E c \in EntryCallers :
        \/ SetAddressLoad(c) \/ SetAddressStore(c)
        \/ SetTagLoad(c) \/ SetTagStore(c)
        \/ SetTentativeLoad(c) \/ SetTentativeStore(c)

SpecEntryRace == InitEntryRace /\ [][NextEntryRace]_vars

\* Every caller has made its call.
SettersDone == \A c \in EntryCallers : bucketEntry.pc[c] = "done"
\* C38: when SetAddress(a) runs concurrently with SetTag(t) or
\* SetTentative() on one entry, the final word holds both updates, and the
\* word is at every moment the initial word or a word some setter wrote.
C38_NoLostUpdate ==
    /\ bucketEntry.word \in bucketEntry.written \cup {bucketEntry.init}
    /\ SettersDone =>
          /\ GetAddress(bucketEntry.layout, bucketEntry.word) = bucketEntry.addr
          /\ \A c \in EntryCallers :
                /\ bucketEntry.name[c] = "SetTag" =>
                      GetTag(bucketEntry.layout, bucketEntry.word)
                         = bucketEntry.tag
                /\ bucketEntry.name[c] = "SetTentative" =>
                      IsTentative(bucketEntry.layout, bucketEntry.word)

\* ----------------------------------------------------------------------- C39
\* The positions of a drain pass at which tryPop has taken the slot.
PoppedPcs == {"pop_read", "pop_clear", "pop_release", "pop_call", "pop_dec"}
Sentinels == {epochFree, epochLocked}
\* C39: the subtraction in ComputeNewSafeToReclaimEpoch never wraps, so the
\* safe-to-reclaim epoch is never the Free or Locked value; a drain pass
\* pops only slots holding a concrete trigger epoch and never calls a nil
\* callback.
C39_NoWrap ==
    /\ safeToReclaimEpoch \notin Sentinels
    /\ \A t \in Threads :
          /\ th[t].pc \in PoppedPcs => th[t].trig \notin Sentinels
          /\ th[t].pc = "pop_call" => th[t].cb # NilCallback
    /\ ~crashed

\* ----------------------------------------------------------------------- C40
\* C40: under any interleaving of BumpCurrentEpochWithCallback,
\* BumpCurrentEpoch, ProtectAndDrain and Drain the drain count never wraps
\* below zero: it stays between 0 and the number of drain-list slots.
C40_CountInRange == drainCount \in 0 .. drainListSize

====
